---- MODULE Spec2Model ----
(***************************************************************************)
(* Calcula context_manager: the heuristic source indexers                  *)
(* (generate_context_map_step1.py, generate_context_map_step2.py) and the *)
(* request workflow of old/call_graph.py.                                  *)
(*                                                                         *)
(* Line numbers are 1-based throughout (a Python index i is line i + 1).   *)
(***************************************************************************)
EXTENDS Integers, Sequences, FiniteSets, TLC

VARIABLES
    \* ---- block delimiter (C-style) ----
    lines,          \* the snippet: a sequence of lines, each a sequence of characters
    start_index,    \* the line the scan starts on
    res_step1,      \* result of step1 find_closing_brace (0: not run yet)
    res_step2,      \* result of step2 find_closing_brace
    res_cg,         \* result of call_graph find_matching_brace
    \* ---- block delimiter (Python) ----
    py_lines,       \* the snippet: a sequence of [kind, indent] lines, line 1 the def
    py_end_step1,   \* line_end set by step1 parse_python (0: not run yet)
    py_end_cg,      \* result of call_graph find_python_block_end
    \* ---- scan, parse, resolve (step1 and step2 main) ----
    tool,           \* which generator runs: step1 or step2
    hash_seed,      \* this run's string hashing: the order its sets iterate in
    contents,       \* per scanned file, the definitions its text holds
    entities,       \* per scanned file, f.entities
    pc,             \* position of main: parse, resolve, done
    next_parse,     \* the file the parse loop is at
    symbol_table,   \* resolve_graph / resolve_dependencies symbol_table
    cursor,         \* the entity the resolution loop is at
    \* ---- request workflow (old/call_graph.py) ----
    state_file,     \* ai_request_state.json: [status, data]
    clock,          \* datetime.now(), as a count of the timestamps taken
    last_cmd,       \* the command line that completed last
    prev_file,      \* state_file as that command found it
    last_request,   \* requested_names of the last request
    flagged,        \* repeated_items the last request reported
    emitted,        \* items_to_process of the last request
    \* ---- two request invocations running at once ----
    procs,          \* per invocation: position, requested names, loaded state
    \* ---- one whole run of a tool, from its main to its exit ----
    run,            \* the tool, what it finds on disk, where main is, how it ended
    \* ---- entity extraction from one file ----
    ext,            \* the parser, the file's lines, the loop position, f.entities
    \* ---- hook composition rendering ----
    hook,           \* the tool, the hooks and their dependencies, the lines rendered
    \* ---- hooks used, triggers, integration layer (step2) ----
    flow,           \* the entity, its body, hooks_used, triggers, is_integration_layer
    \* ---- call graph of a request (old/call_graph.py build_call_graph) ----
    build           \* the definitions, the roots, the queue, the nodes built

brace_vars == <<lines, start_index, res_step1, res_step2, res_cg>>

py_vars == <<py_lines, py_end_step1, py_end_cg>>

graph_vars == <<tool, hash_seed, contents, entities, pc, next_parse, symbol_table, cursor>>

session_vars == <<state_file, clock, last_cmd, prev_file, last_request, flagged, emitted>>

\* The variables of the specifications further down, which the ones above
\* leave alone.
\* The variables of the last two specifications.
later_vars == <<flow, build>>

more_vars == <<run, ext, hook, later_vars>>

vars == <<brace_vars, py_vars, graph_vars, session_vars, procs, more_vars>>

not_brace == <<py_vars, graph_vars, session_vars, procs, more_vars>>
not_py == <<brace_vars, graph_vars, session_vars, procs, more_vars>>
not_graph == <<brace_vars, py_vars, session_vars, procs, more_vars>>
not_session == <<brace_vars, py_vars, graph_vars, more_vars>>

\* ------------------------------------------------------------------------
\* Bounds
\* ------------------------------------------------------------------------
MaxLines == 3
MaxPyLines == 4
MaxIndent == 2
NumFiles == 3
MaxRequests == 3
MaxClock == 3
MaxSrcLines == 4

\* Hook composition: the longest list of hooks one hook uses.
MaxDeps == 2

\* ------------------------------------------------------------------------
\* Each tool runs on its own: the variables of the tools that do not run
\* keep these values.
\* ------------------------------------------------------------------------
\* No block-end scan is running.
BraceIdle ==
    /\ lines = <<>>
    /\ start_index = 1
    /\ res_step1 = 0
    /\ res_step2 = 0
    /\ res_cg = 0

PyIdle ==
    /\ py_lines = <<>>
    /\ py_end_step1 = 0
    /\ py_end_cg = 0

\* No generator is running.
GraphIdle ==
    /\ tool = "none"
    /\ hash_seed = <<>>
    /\ contents = <<>>
    /\ entities = <<>>
    /\ pc = "idle"
    /\ next_parse = 0
    /\ symbol_table = <<>>
    /\ cursor = 0

\* No run of a whole tool is under way.
RunIdle == run = [pc |-> "idle"]

\* No parser is running.
ExtIdle == ext = [pc |-> "idle"]

\* No hook composition is being rendered.
HookIdle == hook = [pc |-> "idle"]

\* No entity is being analysed for its hooks and triggers.
FlowIdle == flow = [pc |-> "idle"]

\* No call graph is being built.
BuildIdle == build = [pc |-> "idle"]

LaterIdle == FlowIdle /\ BuildIdle

MoreIdle == RunIdle /\ ExtIdle /\ HookIdle /\ LaterIdle

\* ------------------------------------------------------------------------
\* Characters
\* ------------------------------------------------------------------------
OPEN == "{"
CLOSE == "}"
DQ == "\""
SQ == "'"
BQ == "backtick"
BSL == "\\"
SLASH == "/"
HASH == "#"

QuoteChars == {DQ, SQ, BQ}

\* The lines snippets are built from.
SnippetLines ==
    { <<OPEN>>,                         \*  fn f() {
      <<CLOSE>>,                        \*  }
      <<"x">>,                          \*  x
      <<OPEN, CLOSE>>,                  \*  { }
      <<DQ, CLOSE, DQ>>,                \*  a string literal holding }
      <<DQ, OPEN, DQ>>,                 \*  a string literal holding {
      <<SLASH, SLASH, CLOSE>>,          \*  // }
      <<DQ, BSL, DQ, CLOSE, DQ>>,       \*  a string literal holding an escaped quote and }
      <<DQ, BSL, BSL, DQ, CLOSE>>,      \*  a string literal holding an escaped backslash, then }
      <<DQ, BSL, BSL, BSL, DQ, DQ, CLOSE>> }
                                        \*  a string literal holding an escaped backslash and
                                        \*  an escaped quote, then }

RECURSIVE SeqsUpTo(_, _)
SeqsUpTo(S, n) ==
    IF n = 0 THEN { <<>> }
    ELSE LET shorter == SeqsUpTo(S, n - 1)
         IN  shorter \cup { Append(s, x) : s \in { t \in shorter : Len(t) = n - 1 }, x \in S }

Max(a, b) == IF a >= b THEN a ELSE b
Min(a, b) == IF a <= b THEN a ELSE b

\* ------------------------------------------------------------------------
\* Python string helpers
\* ------------------------------------------------------------------------
\* line.count(c)
RECURSIVE Count(_, _)
Count(line, c) ==
    IF line = <<>> THEN 0
    ELSE (IF Head(line) = c THEN 1 ELSE 0) + Count(Tail(line), c)

\* c in line
Contains(line, c) == \E k \in 1..Len(line) : line[k] = c

\* line.split("//")[0] when "//" in line, else line
SplitSlashSlash(line) ==
    LET hits == { k \in 1..(Len(line) - 1) : line[k] = SLASH /\ line[k + 1] = SLASH }
    IN  IF hits = {} THEN line
        ELSE LET k == CHOOSE h \in hits : \A g \in hits : h <= g
             IN  SubSeq(line, 1, k - 1)

\* line.split("#")[0] when "#" in line, else line
SplitHash(line) ==
    LET hits == { k \in 1..Len(line) : line[k] = HASH }
    IN  IF hits = {} THEN line
        ELSE LET k == CHOOSE h \in hits : \A g \in hits : h <= g
             IN  SubSeq(line, 1, k - 1)

\* ------------------------------------------------------------------------
\* step1 find_closing_brace: counts braces on each line after cutting the
\* line at "//" and at "#"; strings are not tracked.
\* ------------------------------------------------------------------------
RECURSIVE Step1Scan(_, _, _, _)
Step1Scan(ls, i, balance, started) ==
    IF i > Len(ls) THEN Len(ls) + 1                   \* return len(lines)
    ELSE LET line == SplitHash(SplitSlashSlash(ls[i]))
             b    == balance + Count(line, OPEN) - Count(line, CLOSE)
             s    == started \/ Contains(line, OPEN)
         IN  IF s /\ b <= 0 THEN i ELSE Step1Scan(ls, i + 1, b, s)

find_closing_brace_step1(ls, start) == Step1Scan(ls, start, 0, FALSE)

\* ------------------------------------------------------------------------
\* step2 find_closing_brace: character scan with quote tracking; any
\* character that follows a backslash is skipped.
\* ------------------------------------------------------------------------
ScanInit == [balance |-> 0, started |-> FALSE, in_string |-> FALSE, string_char |-> ""]

RECURSIVE Step2Line(_, _, _)
Step2Line(line, j, st) ==
    IF j > Len(line) THEN st
    ELSE LET char == line[j]
         IN  IF j > 1 /\ line[j - 1] = BSL
                THEN Step2Line(line, j + 1, st)
             ELSE IF char \in QuoteChars /\ ~st.in_string
                THEN Step2Line(line, j + 1, [st EXCEPT !.in_string = TRUE, !.string_char = char])
             ELSE IF char = st.string_char /\ st.in_string
                THEN Step2Line(line, j + 1, [st EXCEPT !.in_string = FALSE, !.string_char = ""])
             ELSE IF ~st.in_string
                THEN IF j < Len(line) /\ line[j] = SLASH /\ line[j + 1] = SLASH
                        THEN st                        \* break
                     ELSE IF char = OPEN
                        THEN Step2Line(line, j + 1,
                                 [st EXCEPT !.balance = @ + 1, !.started = TRUE])
                     ELSE IF char = CLOSE
                        THEN Step2Line(line, j + 1, [st EXCEPT !.balance = @ - 1])
                     ELSE Step2Line(line, j + 1, st)
             ELSE Step2Line(line, j + 1, st)

RECURSIVE Step2Scan(_, _, _)
Step2Scan(ls, i, st) ==
    IF i > Len(ls) THEN Len(ls)                       \* return len(lines) - 1
    ELSE LET after == Step2Line(ls[i], 1, st)
         IN  IF after.started /\ after.balance <= 0 THEN i
             ELSE Step2Scan(ls, i + 1, after)

find_closing_brace_step2(ls, start) == Step2Scan(ls, start, ScanInit)

\* ------------------------------------------------------------------------
\* call_graph find_matching_brace: character scan with quote tracking; a
\* closing quote counts when an even number of backslashes precedes it.
\* ------------------------------------------------------------------------
RECURSIVE BackslashesBefore(_, _)
BackslashesBefore(line, k) ==
    IF k >= 1 /\ line[k] = BSL THEN 1 + BackslashesBefore(line, k - 1) ELSE 0

RECURSIVE MatchLine(_, _, _)
MatchLine(line, j, st) ==
    IF j > Len(line) THEN st
    ELSE LET ch == line[j]
         IN  IF ~st.in_string /\ ch \in QuoteChars
                THEN MatchLine(line, j + 1, [st EXCEPT !.in_string = TRUE, !.string_char = ch])
             ELSE IF st.in_string /\ ch = st.string_char
                THEN IF BackslashesBefore(line, j - 1) % 2 = 0
                        THEN MatchLine(line, j + 1,
                                 [st EXCEPT !.in_string = FALSE, !.string_char = ""])
                     ELSE MatchLine(line, j + 1, st)
             ELSE IF ~st.in_string
                THEN IF ch = SLASH /\ j + 1 <= Len(line) /\ line[j + 1] = SLASH
                        THEN st                        \* break
                     ELSE IF ch = OPEN
                        THEN MatchLine(line, j + 1,
                                 [st EXCEPT !.balance = @ + 1, !.started = TRUE])
                     ELSE IF ch = CLOSE
                        THEN MatchLine(line, j + 1, [st EXCEPT !.balance = @ - 1])
                     ELSE MatchLine(line, j + 1, st)
             ELSE MatchLine(line, j + 1, st)

RECURSIVE MatchScan(_, _, _)
MatchScan(ls, i, st) ==
    IF i > Len(ls) THEN Len(ls)                       \* return len(lines) - 1
    ELSE LET after == MatchLine(ls[i], 1, st)
         IN  IF after.started /\ after.balance = 0 THEN i
             ELSE MatchScan(ls, i + 1, after)

find_matching_brace(ls, start) == MatchScan(ls, start, ScanInit)

\* ------------------------------------------------------------------------
\* The request workflow of old/call_graph.py: the session state kept in
\* ai_request_state.json.
\* ------------------------------------------------------------------------
\* session_id None
NoneId == 0

ItemNames == {"update_cell", "Grid", "impl_Grid"}

\* What load_request_state returns when the file is missing or unreadable.
DefaultState ==
    [session_id |-> NoneId, outline_generated |-> NoneId,
     requested_items |-> <<>>, request_count |-> 0]

\* The file: missing, written whole, or opened for writing and still empty.
AbsentFile == [status |-> "absent", data |-> DefaultState]
TruncatedFile == [status |-> "truncated", data |-> DefaultState]
WrittenFile(state) == [status |-> "ok", data |-> state]

load_request_state(file) == IF file.status = "ok" THEN file.data ELSE DefaultState

\* save_request_state: open(state_path, "w") and json.dump, as one write.
save_request_state(state) == WrittenFile(state)

FreshStateKeepingHistory(now) ==
    [load_request_state(state_file) EXCEPT !.session_id = now, !.outline_generated = now]

\* reset_request_state: the state it builds and saves.
FreshState(now) ==
    [session_id |-> now, outline_generated |-> now,
     requested_items |-> <<>>, request_count |-> 0]

SeqToSet(seq) == { seq[k] : k \in 1..Len(seq) }

\* The orders a set can iterate in.
Orderings(set) ==
    { seq \in SeqsUpTo(set, Cardinality(set)) :
        Len(seq) = Cardinality(set) /\ SeqToSet(seq) = set }

RECURSIVE AppendAll(_, _)
AppendAll(requested_items, order) ==
    IF order = <<>> THEN requested_items
    ELSE AppendAll(Append(requested_items, Head(order)), Tail(order))

\* add_to_request_history, its loop: for item in items (in the order the set
\* iterates): append the item unless it is in the list.
RECURSIVE AppendNew(_, _)
AppendNew(requested_items, order) ==
    IF order = <<>> THEN requested_items
    ELSE AppendNew(IF Head(order) \in SeqToSet(requested_items)
                      THEN requested_items
                      ELSE Append(requested_items, Head(order)),
                   Tail(order))

\* A history that counts a request only when it brings a new name.
add_to_request_history_new_only(state, order) ==
    [state EXCEPT !.requested_items = AppendNew(@, order),
                  !.request_count = IF AppendNew(state.requested_items, order)
                                          = state.requested_items
                                       THEN @ ELSE @ + 1]

\* add_to_request_history, on the state it loaded.
add_to_request_history(state, order) ==
    [state EXCEPT !.requested_items = AppendNew(@, order), !.request_count = @ + 1]

\* items_to_process without its second assignment.
ItemsToProcessNewOnly(requested_names, previously_requested, is_followup) ==
    IF ~is_followup THEN requested_names ELSE requested_names \ previously_requested

\* generate_requested_code: items_to_process.
ItemsToProcess(requested_names, previously_requested, is_followup) ==
    LET new_items == requested_names \ previously_requested
        chosen == IF ~is_followup THEN requested_names ELSE new_items
    IN  IF chosen = {} THEN requested_names ELSE chosen

NoProcs == [p \in {} |-> 0]

SessionIdle ==
    /\ state_file = AbsentFile
    /\ clock = 0
    /\ last_cmd = "none"
    /\ prev_file = AbsentFile
    /\ last_request = {}
    /\ flagged = {}
    /\ emitted = {}

\* No state file, no command run yet.
SessionInit ==
    /\ SessionIdle
    /\ procs = NoProcs
    /\ MoreIdle
    /\ BraceIdle
    /\ PyIdle
    /\ GraphIdle

\* python call_graph.py [outline], entry points found in the log:
\* generate_outline_output starts with reset_request_state().
CmdOutline ==
    /\ clock < MaxClock
    /\ clock' = clock + 1
    /\ state_file' = save_request_state(FreshState(clock + 1))
    /\ last_cmd' = "outline"
    /\ prev_file' = state_file
    /\ UNCHANGED <<last_request, flagged, emitted, procs, not_session>>

\* python call_graph.py [outline], no entry points in the log: main returns
\* before generate_outline_output.
CmdOutlineNoRoots ==
    /\ last_cmd' = "outline-no-roots"
    /\ prev_file' = state_file
    /\ UNCHANGED <<state_file, clock, last_request, flagged, emitted, procs, not_session>>

\* python call_graph.py request "a,b" (or request-file with a file naming
\* them): main and generate_requested_code, one invocation running alone.
CmdRequest ==
    \E requested \in SUBSET ItemNames :
        LET seen == load_request_state(state_file)
            is_followup == seen.request_count > 0
            previously_requested == SeqToSet(seen.requested_items)
        IN  /\ seen.request_count < MaxRequests
            /\ \E order \in Orderings(requested) :
                  state_file' = save_request_state(
                                    add_to_request_history(load_request_state(state_file), order))
            /\ last_request' = requested
            /\ flagged' = requested \cap previously_requested
            /\ emitted' = ItemsToProcess(requested, previously_requested, is_followup)
            /\ last_cmd' = "request"
            /\ prev_file' = state_file
            /\ UNCHANGED <<clock, procs, not_session>>

\* python call_graph.py request-file f, the file missing or holding no
\* REQUEST_CODE line: main reports the error and returns.
CmdRequestFileError ==
    /\ last_cmd' = "request-file-error"
    /\ prev_file' = state_file
    /\ UNCHANGED <<state_file, clock, last_request, flagged, emitted, procs, not_session>>

CmdResetNeedingFile ==
    /\ state_file.status = "ok"
    /\ clock < MaxClock
    /\ clock' = clock + 1
    /\ state_file' = save_request_state(FreshState(clock + 1))
    /\ last_cmd' = "reset"
    /\ prev_file' = state_file
    /\ UNCHANGED <<last_request, flagged, emitted, procs, not_session>>

\* python call_graph.py reset
CmdReset ==
    /\ clock < MaxClock
    /\ clock' = clock + 1
    /\ state_file' = save_request_state(FreshState(clock + 1))
    /\ last_cmd' = "reset"
    /\ prev_file' = state_file
    /\ UNCHANGED <<last_request, flagged, emitted, procs, not_session>>

\* python call_graph.py status
CmdStatus ==
    /\ last_cmd' = "status"
    /\ prev_file' = state_file
    /\ UNCHANGED <<state_file, clock, last_request, flagged, emitted, procs, not_session>>

SessionNext ==
    \/ CmdOutline
    \/ CmdOutlineNoRoots
    \/ CmdRequest
    \/ CmdRequestFileError
    \/ CmdReset
    \/ CmdStatus

SpecSession == SessionInit /\ [][SessionNext]_vars

\* ------------------------------------------------------------------------
\* The block-delimiter specification: a snippet and a start line are drawn,
\* then each scanner is run on them.
\* ------------------------------------------------------------------------
BraceInit ==
    /\ lines \in (SeqsUpTo(SnippetLines, MaxLines) \ { <<>> })
    /\ start_index \in 1..MaxLines
    /\ start_index <= Len(lines)
    /\ res_step1 = 0
    /\ res_step2 = 0
    /\ res_cg = 0
    /\ PyIdle
    /\ GraphIdle
    /\ SessionIdle
    /\ procs = NoProcs
    /\ MoreIdle

ScanStep1 ==
    /\ res_step1 = 0
    /\ res_step1' = find_closing_brace_step1(lines, start_index)
    /\ UNCHANGED <<lines, start_index, res_step2, res_cg, not_brace>>

ScanStep2 ==
    /\ res_step2 = 0
    /\ res_step2' = find_closing_brace_step2(lines, start_index)
    /\ UNCHANGED <<lines, start_index, res_step1, res_cg, not_brace>>

ScanCallGraph ==
    /\ res_cg = 0
    /\ res_cg' = find_matching_brace(lines, start_index)
    /\ UNCHANGED <<lines, start_index, res_step1, res_step2, not_brace>>

BraceNext == ScanStep1 \/ ScanStep2 \/ ScanCallGraph

SpecBrace == BraceInit /\ [][BraceNext]_vars

\* ------------------------------------------------------------------------
\* What a string literal, a comment and a matching brace are (the reading
\* the block-end claims are stated against): inside a literal a backslash
\* escapes the next character and the opening quote character closes it;
\* outside a literal // starts a comment that runs to the end of the line.
\* ------------------------------------------------------------------------
RECURSIVE LexLine(_, _, _, _)
LexLine(line, j, quote, acc) ==
    IF j > Len(line) THEN [braces |-> acc, open_literal |-> quote # ""]
    ELSE LET ch == line[j]
         IN  IF quote # ""
                THEN IF ch = BSL THEN LexLine(line, j + 2, quote, acc)
                     ELSE IF ch = quote THEN LexLine(line, j + 1, "", acc)
                     ELSE LexLine(line, j + 1, quote, acc)
             ELSE IF ch \in QuoteChars THEN LexLine(line, j + 1, ch, acc)
             ELSE IF ch = SLASH /\ j < Len(line) /\ line[j + 1] = SLASH
                THEN [braces |-> acc, open_literal |-> FALSE]
             ELSE IF ch \in {OPEN, CLOSE} THEN LexLine(line, j + 1, "", Append(acc, ch))
             ELSE LexLine(line, j + 1, "", acc)

\* The braces of a line that are code, in order.
CodeBraces(line) == LexLine(line, 1, "", <<>>).braces
LiteralsClosed(line) == ~LexLine(line, 1, "", <<>>).open_literal
HasBraceInLiteral(line) ==
    Count(line, OPEN) + Count(line, CLOSE) > Len(CodeBraces(line))
        /\ \E k \in 1..Len(line) : line[k] \in QuoteChars

\* Nesting depth of the code braces after lines start..k.
RECURSIVE DepthAfter(_, _, _)
DepthAfter(ls, start, k) ==
    IF k < start THEN 0
    ELSE DepthAfter(ls, start, k - 1)
             + Count(CodeBraces(ls[k]), OPEN) - Count(CodeBraces(ls[k]), CLOSE)

\* The snippet from line start on is a brace block: the first code brace of
\* the start line opens it, every literal closes on its line, and a line m
\* closes it.
ClosesAt(ls, start, m) ==
    /\ m \in start..Len(ls)
    /\ DepthAfter(ls, start, m) = 0
    /\ \A k \in start..(m - 1) : DepthAfter(ls, start, k) > 0
    /\ \A k \in start..m : LiteralsClosed(ls[k])

BalancedBlock(ls, start) ==
    /\ CodeBraces(ls[start]) # <<>>
    /\ Head(CodeBraces(ls[start])) = OPEN
    /\ \E m \in start..Len(ls) : ClosesAt(ls, start, m)

MatchingBraceLine(ls, start) == CHOOSE m \in start..Len(ls) : ClosesAt(ls, start, m)

\* A brace character sits inside a string literal on a line of the block.
BraceInLiteralInside(ls, start) ==
    \E k \in start..MatchingBraceLine(ls, start) : HasBraceInLiteral(ls[k])

\* C1: for a snippet with balanced braces, each block-end scan started on the
\* line of the opening brace returns the line of the matching closing brace,
\* whatever brace characters sit inside string literals on the way.
C1_BlockEndIsMatchingBrace ==
    BalancedBlock(lines, start_index) =>
        /\ res_step1 # 0 => res_step1 = MatchingBraceLine(lines, start_index)
        /\ res_step2 # 0 => res_step2 = MatchingBraceLine(lines, start_index)
        /\ res_cg # 0 => res_cg = MatchingBraceLine(lines, start_index)

C1_Step1Only ==
    BalancedBlock(lines, start_index) /\ res_step1 # 0
        => res_step1 = MatchingBraceLine(lines, start_index)
C1_Step2Only ==
    BalancedBlock(lines, start_index) /\ res_step2 # 0
        => res_step2 = MatchingBraceLine(lines, start_index)
C1_CallGraphOnly ==
    BalancedBlock(lines, start_index) /\ res_cg # 0
        => res_cg = MatchingBraceLine(lines, start_index)

\* ------------------------------------------------------------------------
\* Python blocks.  A line is [kind, indent]: kind def (a def or class line),
\* code, comment (its first non-blank character is #) or blank (nothing but
\* white space); indent is len(line) - len(line.lstrip()).
\* ------------------------------------------------------------------------
PyLine(k, n) == [kind |-> k, indent |-> n]

PyBodyLines ==
    { PyLine("blank", 0) }
        \cup { PyLine(k, n) : k \in {"code", "comment"}, n \in 0..MaxIndent }

\* Scenario D of the spec: a def, ten body lines, a dedented blank line, a
\* dedented comment, a dedented statement.
ScenarioD ==
    <<PyLine("def", 0)>>
        \o [k \in 1..10 |-> PyLine("code", 1)]
        \o <<PyLine("blank", 0), PyLine("comment", 0), PyLine("code", 0)>>

\* step1 parse_python, the loop that sets ent.line_end for the def on line d:
\* only blank lines are skipped.
RECURSIVE ParsePythonEnd(_, _, _)
ParsePythonEnd(ls, d, m) ==
    IF m > Len(ls) THEN Len(ls)                        \* for-else: len(lines)
    ELSE IF ls[m].kind = "blank" THEN ParsePythonEnd(ls, d, m + 1)
    ELSE IF ls[m].indent <= ls[d].indent THEN m - 1    \* ent.line_end = j
    ELSE ParsePythonEnd(ls, d, m + 1)

parse_python_line_end(ls, d) == ParsePythonEnd(ls, d, d + 1)

\* call_graph find_python_block_end: blank and comment lines are skipped; the
\* first code line fixes body_indent, a later code line indented less than
\* body_indent ends the block.  body_indent -1 stands for None.
RECURSIVE PyBlockScan(_, _, _, _)
PyBlockScan(ls, d, m, body_indent) ==
    IF m > Len(ls) THEN Len(ls)                        \* return len(lines) - 1
    ELSE IF ls[m].kind \in {"blank", "comment"} THEN PyBlockScan(ls, d, m + 1, body_indent)
    ELSE IF body_indent = -1
        THEN IF ls[m].indent > ls[d].indent
                THEN PyBlockScan(ls, d, m + 1, ls[m].indent)
             ELSE d                                    \* return start_line
    ELSE IF ls[m].indent < body_indent THEN m - 1      \* return i - 1
    ELSE PyBlockScan(ls, d, m + 1, body_indent)

find_python_block_end(ls, d) ==
    IF d > Len(ls) THEN d ELSE PyBlockScan(ls, d, d + 1, -1)

PyInit ==
    /\ py_lines \in
          { <<PyLine("def", n)>> \o body :
                n \in 0..(MaxIndent - 1), body \in SeqsUpTo(PyBodyLines, MaxPyLines - 1) }
              \cup { ScenarioD }
    /\ py_end_step1 = 0
    /\ py_end_cg = 0
    /\ BraceIdle
    /\ GraphIdle
    /\ SessionIdle
    /\ procs = NoProcs
    /\ MoreIdle

ParsePython ==
    /\ py_lines # <<>>
    /\ py_end_step1 = 0
    /\ py_end_step1' = parse_python_line_end(py_lines, 1)
    /\ UNCHANGED <<py_lines, py_end_cg, not_py>>

FindPythonBlockEnd ==
    /\ py_lines # <<>>
    /\ py_end_cg = 0
    /\ py_end_cg' = find_python_block_end(py_lines, 1)
    /\ UNCHANGED <<py_lines, py_end_step1, not_py>>

PyNext == ParsePython \/ FindPythonBlockEnd

SpecPy == PyInit /\ [][PyNext]_vars

\* The block end the claim describes: the last line before the first line
\* after the def that is neither blank nor a comment and is indented no
\* deeper than the def; the last line of the snippet when there is none.
Dedented(ls, d) ==
    { m \in (d + 1)..Len(ls) :
        ls[m].kind \notin {"blank", "comment"} /\ ls[m].indent <= ls[d].indent }

ClaimedBlockEnd(ls, d) ==
    IF Dedented(ls, d) = {} THEN Len(ls)
    ELSE (CHOOSE m \in Dedented(ls, d) : \A k \in Dedented(ls, d) : m <= k) - 1

\* C2: the block end of a def is the last line before the first non-blank,
\* non-comment line indented no deeper than the def (the end of the file if
\* there is none); blank and comment lines never end the block.
C2_PythonBlockEnd ==
    /\ py_end_step1 # 0 => py_end_step1 = ClaimedBlockEnd(py_lines, 1)
    /\ py_end_cg # 0 => py_end_cg = ClaimedBlockEnd(py_lines, 1)

\* C2, Scenario D alone: the block ends on the line just before the dedented
\* statement.
C2_ScenarioD ==
    py_lines = ScenarioD =>
        /\ py_end_step1 # 0 => py_end_step1 = Len(ScenarioD) - 1
        /\ py_end_cg # 0 => py_end_cg = Len(ScenarioD) - 1

C2_Step1Only == py_end_step1 # 0 => py_end_step1 = ClaimedBlockEnd(py_lines, 1)
C2_CallGraphOnly == py_end_cg # 0 => py_end_cg = ClaimedBlockEnd(py_lines, 1)

\* ------------------------------------------------------------------------
\* Scan, parse, resolve: main of step1 and of step2.
\*
\* The scanned tree is fixed: NumFiles source files in walk order.  What a
\* file's text holds is drawn at the start: a sequence of definitions, each
\* a name and the call-like tokens the call pattern finds in its body.
\* ------------------------------------------------------------------------
ProjectFiles ==
    << [path |-> "/proj/src/a.rs", rel_path |-> "src/a.rs", base |-> "a.rs", extension |-> ".rs"],
       [path |-> "/proj/lib/a.rs", rel_path |-> "lib/a.rs", base |-> "a.rs", extension |-> ".rs"],
       [path |-> "/proj/ui/c.ts",  rel_path |-> "ui/c.ts",  base |-> "c.ts", extension |-> ".ts"],
       [path |-> "/proj/ui/d.ts",  rel_path |-> "ui/d.ts",  base |-> "d.ts", extension |-> ".ts"],
       [path |-> "/proj/src/e.rs", rel_path |-> "src/e.rs", base |-> "e.rs", extension |-> ".rs"] >>

all_files == SubSeq(ProjectFiles, 1, Min(NumFiles, Len(ProjectFiles)))

\* os.path.basename(c.file_path)
Basename(file_path) ==
    (CHOOSE f \in { ProjectFiles[i] : i \in 1..Len(ProjectFiles) } : f.path = file_path).base

CallTokens == {"if", "helper", "offsetToCell", "Grid::new", "Vec::new", "doSomethingExternal"}

Definitions ==
    { [name |-> "helper", body_calls |-> {"if"}],
      [name |-> "offsetToCell", body_calls |-> {"helper", "offsetToCell"}],
      [name |-> "load",
       body_calls |-> {"if", "helper", "offsetToCell", "Grid::new", "Vec::new",
                       "doSomethingExternal"}] }

HelperDef == CHOOSE d \in Definitions : d.name = "helper"
LoadDef == CHOOSE d \in Definitions : d.name = "load"
OffsetDef == CHOOSE d \in Definitions : d.name = "offsetToCell"

\* What one file can hold: nothing (also an unreadable file), one
\* definition, helper followed by a definition, or load and offsetToCell.
FileContents ==
    { <<>> } \cup { <<d>> : d \in Definitions }
        \cup { <<HelperDef, d>> : d \in Definitions }
        \cup { <<LoadDef, OffsetDef>> }

\* The orders a set of call names can iterate in (one per hash seed).
HashSeeds ==
    { <<"Grid::new", "Vec::new", "doSomethingExternal", "helper", "offsetToCell">>,
      <<"offsetToCell", "helper", "doSomethingExternal", "Vec::new", "Grid::new">> }

\* for call in raw_calls: the calls of the set in this run's order.
RECURSIVE IterationOrder(_, _)
IterationOrder(set, seed) ==
    IF seed = <<>> THEN <<>>
    ELSE (IF Head(seed) \in set THEN <<Head(seed)>> ELSE <<>>) \o IterationOrder(set, Tail(seed))

\* The control-flow words each parser drops from the call pattern's matches.
ExcludedCalls == {"if", "for", "while", "match", "switch", "catch", "super"}

\* parse_rust / parse_typescript / TypeScriptParser / RustParser, reduced to
\* what resolution reads: one entity per definition, in text order, its
\* raw_calls the body's call tokens without its own name and the excluded words.
ParseEntity(file, d) ==
    [name |-> d.name, file_path |-> file.path, rel_path |-> file.rel_path,
     raw_calls |-> { c \in d.body_calls : c # d.name /\ c \notin ExcludedCalls },
     resolved_calls |-> <<>>]

ParseFileEntities(file, content) == [k \in 1..Len(content) |-> ParseEntity(file, content[k])]

\* step1 HIDDEN_CALLS and IGNORED_IMPORTS, as far as the call tokens go: the
\* fragments of IGNORED_IMPORTS[extension] that occur in a call name.
HIDDEN_CALLS == {"Vec::new"}

IgnoredFragmentsIn(call, extension) ==
    IF extension = ".rs" /\ call = "doSomethingExternal" THEN {"Some"}
    ELSE IF extension = ".ts" /\ call = "offsetToCell" THEN {"fs"}
    ELSE {}

is_call_ignored(call, extension) ==
    \/ call \in HIDDEN_CALLS
    \/ IgnoredFragmentsIn(call, extension) # {}

\* "::" in call
HasPathSeparator(call) == call \in {"Grid::new", "Vec::new"}
\* "." in call
HasDot(call) == FALSE

\* The first loop of resolve_graph / resolve_dependencies: name -> the
\* entities of that name, in file order then text order.
RECURSIVE Flatten(_)
Flatten(seqs) == IF seqs = <<>> THEN <<>> ELSE Head(seqs) \o Flatten(Tail(seqs))

RECURSIVE SelectNamed(_, _)
SelectNamed(ents, n) ==
    IF ents = <<>> THEN <<>>
    ELSE (IF Head(ents).name = n THEN <<Head(ents)>> ELSE <<>>) \o SelectNamed(Tail(ents), n)

BuildSymbolTable(ents_by_file) ==
    LET flat == Flatten(ents_by_file)
    IN  [n \in { flat[k].name : k \in 1..Len(flat) } |-> SelectNamed(flat, n)]

\* symbol_table.get(call)
Candidates(table, call) == IF call \in DOMAIN table THEN table[call] ELSE <<>>

\* The resolution strings, as the pieces they are formatted from.
SelfRef(name) == <<"self", " :: ", name>>
CrossRefAsSelf(rel_path, name) == <<"self", " :: ", name>>

CrossRef(rel_path, name) == <<rel_path, " :: ", name>>

RECURSIVE JoinComma(_)
JoinComma(items) ==
    IF items = <<>> THEN <<>>
    ELSE IF Len(items) = 1 THEN items
    ELSE <<Head(items), ", ">> \o JoinComma(Tail(items))

AmbiguousRef(call, sources) == <<call, " [? ">> \o JoinComma(sources) \o <<"]">>

AmbiguousSourcesAll(candidates) ==
    [k \in 1..Len(candidates) |-> Basename(candidates[k].file_path)]

\* sources = [basename(c.file_path) for c in candidates[:3]], plus "..."
AmbiguousSources(candidates) ==
    [k \in 1..Min(3, Len(candidates)) |-> Basename(candidates[k].file_path)]
        \o (IF Len(candidates) > 3 THEN <<"...">> ELSE <<>>)

ResolveBareCallNoTieBreak(table, f, call) ==
    LET candidates == Candidates(table, call)
    IN  IF candidates = <<>> THEN <<>>
        ELSE IF Len(candidates) = 1
            THEN IF candidates[1].file_path = f.path
                    THEN <<SelfRef(candidates[1].name)>>
                 ELSE <<CrossRef(candidates[1].rel_path, candidates[1].name)>>
        ELSE <<AmbiguousRef(call, AmbiguousSources(candidates))>>

\* The lookup both resolvers share: what one bare call of an entity of file
\* f appends to resolved_calls (nothing, or one string).
ResolveBareCall(table, f, call) ==
    LET candidates == Candidates(table, call)
    IN  IF candidates = <<>> THEN <<>>
        ELSE IF Len(candidates) = 1
            THEN IF candidates[1].file_path = f.path
                    THEN <<SelfRef(candidates[1].name)>>
                 ELSE <<CrossRef(candidates[1].rel_path, candidates[1].name)>>
        ELSE IF \E k \in 1..Len(candidates) : candidates[k].file_path = f.path
            THEN <<SelfRef(call)>>
        ELSE <<AmbiguousRef(call, AmbiguousSources(candidates))>>

\* step1 resolve_graph, the body of its innermost loop.
ResolveCallStep1(table, f, call) ==
    IF is_call_ignored(call, f.extension) THEN <<>>
    ELSE IF HasPathSeparator(call)
        THEN IF call \notin HIDDEN_CALLS THEN <<<<call>>>> ELSE <<>>
    ELSE ResolveBareCall(table, f, call)

\* step2 resolve_dependencies, the body of its innermost loop.
ResolveCallStep2(table, f, call) ==
    IF HasPathSeparator(call) \/ HasDot(call) THEN <<<<call>>>>
    ELSE ResolveBareCall(table, f, call)

ResolveCall(t, table, f, call) ==
    IF t = "step1" THEN ResolveCallStep1(table, f, call) ELSE ResolveCallStep2(table, f, call)

RECURSIVE ResolveInOrderStopping(_, _, _, _)
ResolveInOrderStopping(t, table, f, calls) ==
    IF calls = <<>> THEN <<>>
    ELSE IF ResolveCall(t, table, f, Head(calls)) = <<>> THEN <<>>
    ELSE ResolveCall(t, table, f, Head(calls)) \o ResolveInOrderStopping(t, table, f, Tail(calls))

\* for call in ent.raw_calls: ..., the set iterated in the order seed gives.
RECURSIVE ResolveInOrder(_, _, _, _)
ResolveInOrder(t, table, f, calls) ==
    IF calls = <<>> THEN <<>>
    ELSE ResolveCall(t, table, f, Head(calls)) \o ResolveInOrder(t, table, f, Tail(calls))

ResolveEntityCalls(t, table, f, ent, seed) ==
    ResolveInOrder(t, table, f, IterationOrder(ent.raw_calls, seed))

\* for f in files: for ent in f.entities: the entities in loop order, each
\* as <<file index, entity index>>.
EntityOrder(ents_by_file) ==
    Flatten([i \in 1..Len(ents_by_file) |-> [k \in 1..Len(ents_by_file[i]) |-> <<i, k>>]])

ParseLoopDoneEarly == next_parse > 1

\* for f in all_files: parse ... has run over every file.
ParseLoopDone == next_parse > Len(all_files)

GraphInit ==
    /\ tool \in {"step1", "step2"}
    /\ hash_seed \in HashSeeds
    /\ contents \in [1..Len(all_files) -> FileContents]
    /\ entities = [i \in 1..Len(all_files) |-> <<>>]
    /\ pc = "parse"
    /\ next_parse = 1
    /\ symbol_table = <<>>
    /\ cursor = 0
    /\ BraceIdle
    /\ PyIdle
    /\ SessionIdle
    /\ procs = NoProcs
    /\ MoreIdle

\* One turn of the parse loop of main.
ParseFile ==
    /\ pc = "parse"
    /\ ~ParseLoopDone
    /\ entities' = [entities EXCEPT ![next_parse] =
                        ParseFileEntities(all_files[next_parse], contents[next_parse])]
    /\ next_parse' = next_parse + 1
    /\ UNCHANGED <<tool, hash_seed, contents, pc, symbol_table, cursor, not_graph>>

\* main calls the resolver, which first builds the symbol table.
StartResolve ==
    /\ pc = "parse"
    /\ ParseLoopDone
    /\ symbol_table' = BuildSymbolTable(entities)
    /\ pc' = "resolve"
    /\ cursor' = 1
    /\ UNCHANGED <<tool, hash_seed, contents, entities, next_parse, not_graph>>

\* One entity of the resolver's second loop: all its raw calls.
ResolveEntity ==
    /\ pc = "resolve"
    /\ cursor <= Len(EntityOrder(entities))
    /\ LET at == EntityOrder(entities)[cursor]
           f  == all_files[at[1]]
           ent == entities[at[1]][at[2]]
       IN  entities' = [entities EXCEPT ![at[1]][at[2]].resolved_calls =
                            @ \o ResolveEntityCalls(tool, symbol_table, f, ent, hash_seed)]
    /\ cursor' = cursor + 1
    /\ UNCHANGED <<tool, hash_seed, contents, pc, next_parse, symbol_table, not_graph>>

\* The resolver returns.
FinishResolve ==
    /\ pc = "resolve"
    /\ cursor > Len(EntityOrder(entities))
    /\ pc' = "done"
    /\ UNCHANGED <<tool, hash_seed, contents, entities, next_parse, symbol_table, cursor, not_graph>>

GraphNext == ParseFile \/ StartResolve \/ ResolveEntity \/ FinishResolve

SpecGraph == GraphInit /\ [][GraphNext]_vars

\* ------------------------------------------------------------------------
\* Resolution claims.  They are stated against the text of the files
\* (contents), not against the symbol table the resolver built.
\* ------------------------------------------------------------------------
\* The definitions named n across the scanned tree, as <<file, position>>.
DefinersOf(n) ==
    UNION { { <<i, k>> : k \in { j \in 1..Len(contents[i]) : contents[i][j].name = n } } :
              i \in 1..Len(all_files) }

DefinedInFile(i, n) == \E k \in 1..Len(contents[i]) : contents[i][k].name = n

\* The entities whose calls the resolver has been through.
ResolvedEntities ==
    IF pc = "done" THEN { EntityOrder(entities)[m] : m \in 1..Len(EntityOrder(entities)) }
    ELSE IF pc = "resolve"
        THEN { EntityOrder(entities)[m] : m \in 1..(cursor - 1) }
    ELSE {}

\* The call is looked up by bare name: it is not noise dropped before the
\* lookup and carries no qualifier.
LookedUp(i, call) ==
    /\ ~HasPathSeparator(call)
    /\ ~HasDot(call)
    /\ tool = "step1" => ~is_call_ignored(call, all_files[i].extension)

InSeq(x, seq) == \E m \in 1..Len(seq) : seq[m] = x

IsSelfRefTo(r, n) == r = <<"self", " :: ", n>>
IsCrossRefTo(r, n) == Len(r) = 3 /\ r[2] = " :: " /\ r[3] = n /\ r[1] # "self"
IsAmbiguousFor(r, n) == Len(r) >= 3 /\ r[1] = n /\ r[2] = " [? " /\ r[Len(r)] = "]"
IsAmbiguous(r) == Len(r) >= 3 /\ r[2] = " [? " /\ r[Len(r)] = "]"

\* The candidate sources an ambiguous marker names, and its overflow mark.
ListedSources(r) == { m \in 3..(Len(r) - 1) : r[m] \notin {", ", "..."} }
HasOverflowMark(r) == Len(r) >= 4 /\ r[Len(r) - 1] = "..."

C4_AmbiguityBound ==
    \A at \in ResolvedEntities :
        LET i == at[1]
            ent == entities[at[1]][at[2]]
        IN  /\ \A m \in 1..Len(ent.resolved_calls) :
                  LET r == ent.resolved_calls[m]
                  IN  IsAmbiguous(r) =>
                        /\ Cardinality(ListedSources(r)) <= 3
                        /\ Cardinality(DefinersOf(r[1])) > 3 => HasOverflowMark(r)
                        /\ ~DefinedInFile(i, r[1])
            /\ \A c \in ent.raw_calls :
                  \A j1, j2 \in 1..Len(all_files) :
                      ( /\ LookedUp(i, c)
                        /\ j1 < j2 /\ j1 # i /\ j2 # i
                        /\ DefinersOf(c) = {<<j1, 1>>, <<j2, 1>>} )
                      => /\ InSeq(<<c, " [? ", all_files[j1].base, ", ", all_files[j2].base, "]">>,
                                  ent.resolved_calls)
                         /\ ~InSeq(SelfRef(c), ent.resolved_calls)

\* C4 witness: a marker for a name with more than 3 candidates, carrying the
\* overflow mark.
C4_Witness ==
    \E at \in ResolvedEntities :
        \E m \in 1..Len(entities[at[1]][at[2]].resolved_calls) :
            LET r == entities[at[1]][at[2]].resolved_calls[m]
            IN  IsAmbiguous(r) /\ Cardinality(DefinersOf(r[1])) > 3 /\ HasOverflowMark(r)

\* C9: with the same input the resolution output is the same in every run:
\* whatever order the run's sets iterate in, every entity gets the
\* resolved_calls list this run gave it.
C9_SameOutputEveryRun ==
    pc = "done" =>
        \A seed \in HashSeeds :
            \A i \in 1..Len(all_files) :
                \A k \in 1..Len(entities[i]) :
                    entities[i][k].resolved_calls =
                        ResolveEntityCalls(tool, symbol_table, all_files[i], entities[i][k], seed)

Invocations == {1, 2}

\* The session the two invocations find: just outlined, or one request in.
StartFiles ==
    { WrittenFile(FreshState(1)),
      WrittenFile([FreshState(1) EXCEPT !.requested_items = <<"Grid">>, !.request_count = 1]) }

ConcInit ==
    /\ state_file \in StartFiles
    /\ prev_file = state_file
    /\ clock = 1
    /\ last_cmd = "none"
    /\ last_request = {}
    /\ flagged = {}
    /\ emitted = {}
    /\ procs \in [Invocations ->
                    { [pc |-> "main", requested |-> r, is_followup |-> FALSE,
                       repeated |-> {}, state |-> DefaultState] :
                          r \in (SUBSET ItemNames) \ {{}} }]
    /\ BraceIdle
    /\ PyIdle
    /\ GraphIdle
    /\ MoreIdle

conc_unchanged == <<clock, last_cmd, prev_file, last_request, flagged, emitted, not_session>>

\* main: state = load_request_state(); is_followup = request_count > 0
MainLoad(p) ==
    /\ procs[p].pc = "main"
    /\ procs' = [procs EXCEPT ![p].pc = "generate",
                              ![p].is_followup = load_request_state(state_file).request_count > 0]
    /\ UNCHANGED <<state_file, conc_unchanged>>

\* generate_requested_code: loads the state, sorts the names into new and
\* repeated, writes the code.
GenerateLoad(p) ==
    /\ procs[p].pc = "generate"
    /\ procs' = [procs EXCEPT
                    ![p].pc = "history",
                    ![p].repeated = procs[p].requested
                        \cap SeqToSet(load_request_state(state_file).requested_items)]
    /\ UNCHANGED <<state_file, conc_unchanged>>

\* add_to_request_history: loads the state and changes its copy.
HistoryLoad(p) ==
    /\ procs[p].pc = "history"
    /\ \E order \in Orderings(procs[p].requested) :
          procs' = [procs EXCEPT
                      ![p].pc = "save-open",
                      ![p].state = add_to_request_history(load_request_state(state_file), order)]
    /\ UNCHANGED <<state_file, conc_unchanged>>

\* save_request_state: open(state_path, "w")
SaveOpen(p) ==
    /\ procs[p].pc = "save-open"
    /\ state_file' = TruncatedFile
    /\ procs' = [procs EXCEPT ![p].pc = "save-write"]
    /\ UNCHANGED conc_unchanged

\* save_request_state: json.dump(state, f)
SaveWrite(p) ==
    /\ procs[p].pc = "save-write"
    /\ state_file' = WrittenFile(procs[p].state)
    /\ procs' = [procs EXCEPT ![p].pc = "done"]
    /\ UNCHANGED conc_unchanged

ConcNext ==
    \E p \in Invocations :
        \/ MainLoad(p)
        \/ GenerateLoad(p)
        \/ HistoryLoad(p)
        \/ SaveOpen(p)
        \/ SaveWrite(p)

SpecConc == ConcInit /\ [][ConcNext]_vars

\* ------------------------------------------------------------------------
\* Session claims.
\* ------------------------------------------------------------------------
\* The workflow state a state file stands for.
SessionState(file) ==
    LET st == load_request_state(file)
    IN  IF st.request_count > 0 THEN "RequestFulfilled"
        ELSE IF st.session_id = NoneId THEN "NoSession"
        ELSE "OutlineGenerated"

C7_ResetReturnsToNoSession ==
    last_cmd = "reset" => SessionState(state_file) = "NoSession"

\* What the reset command does leave: the record of a session just
\* outlined, with a session id and an outline time.
C7_ResetLeavesFreshSession ==
    last_cmd = "reset" =>
        /\ SessionState(state_file) = "OutlineGenerated"
        /\ load_request_state(state_file).outline_generated # NoneId

\* C8: after two request invocations that ran at once, the already-provided
\* list holds the names of both and the counter has counted both.
C8_NoLostUpdate ==
    (\A p \in Invocations : procs[p].pc = "done") =>
        /\ \A p \in Invocations :
              procs[p].requested \subseteq SeqToSet(load_request_state(state_file).requested_items)
        /\ load_request_state(state_file).request_count
              = load_request_state(prev_file).request_count + 2

\* ------------------------------------------------------------------------
\* The block-end scan that finds no closing brace.
\* ------------------------------------------------------------------------
\* The counters of step1's scan after lines start..k.
RECURSIVE Step1After(_, _, _)
Step1After(ls, start, k) ==
    IF k < start THEN [balance |-> 0, started |-> FALSE]
    ELSE LET before == Step1After(ls, start, k - 1)
             line == SplitHash(SplitSlashSlash(ls[k]))
         IN  [balance |-> before.balance + Count(line, OPEN) - Count(line, CLOSE),
              started |-> before.started \/ Contains(line, OPEN)]

\* The state of step2's scan, and of call_graph's, after lines start..k.
RECURSIVE Step2After(_, _, _)
Step2After(ls, start, k) ==
    IF k < start THEN ScanInit ELSE Step2Line(ls[k], 1, Step2After(ls, start, k - 1))

RECURSIVE MatchAfter(_, _, _)
MatchAfter(ls, start, k) ==
    IF k < start THEN ScanInit ELSE MatchLine(ls[k], 1, MatchAfter(ls, start, k - 1))

\* The scan reaches the end of the input without meeting its return test.
Step1NoClose ==
    \A k \in start_index..Len(lines) :
        ~(Step1After(lines, start_index, k).started
            /\ Step1After(lines, start_index, k).balance <= 0)

Step2NoClose ==
    \A k \in start_index..Len(lines) :
        ~(Step2After(lines, start_index, k).started
            /\ Step2After(lines, start_index, k).balance <= 0)

MatchNoClose ==
    \A k \in start_index..Len(lines) :
        ~(MatchAfter(lines, start_index, k).started
            /\ MatchAfter(lines, start_index, k).balance = 0)

\* C11: a block-end scan that finds no closing brace returns the last line
\* of the input (line Len(lines) counting from 1, index len(lines) - 1), in
\* each of the three scanners.
C11_NoCloseReturnsLastLine ==
    /\ (res_step1 # 0 /\ Step1NoClose) => res_step1 = Len(lines)
    /\ (res_step2 # 0 /\ Step2NoClose) => res_step2 = Len(lines)
    /\ (res_cg # 0 /\ MatchNoClose) => res_cg = Len(lines)

\* The same for step2's and call_graph's scanners alone, and what step1's
\* returns instead: one past the last line.
C11_Step2AndCallGraph ==
    /\ (res_step2 # 0 /\ Step2NoClose) => res_step2 = Len(lines)
    /\ (res_cg # 0 /\ MatchNoClose) => res_cg = Len(lines)

C11_Step1OnePast ==
    (res_step1 # 0 /\ Step1NoClose) <=> res_step1 = Len(lines) + 1

ResolutionOf(r, c) ==
    IsSelfRefTo(r, c) \/ IsCrossRefTo(r, c) \/ IsAmbiguousFor(r, c) \/ r = <<c>>

\* C13: a bare call whose name no entity of the project has leaves nothing
\* in resolved_calls, and the entity's other calls are resolved all the
\* same: each looked-up call with a definition has its resolution, each
\* qualified call the resolver keeps is kept.
C13_ZeroCandidatesDropped ==
    \A at \in ResolvedEntities :
        LET i == at[1]
            ent == entities[at[1]][at[2]]
        IN  \A c \in ent.raw_calls :
                (~HasPathSeparator(c) /\ ~HasDot(c) /\ DefinersOf(c) = {}) =>
                    /\ \A m \in 1..Len(ent.resolved_calls) :
                          ~ResolutionOf(ent.resolved_calls[m], c)
                    /\ \A c2 \in ent.raw_calls \ {c} :
                          /\ (LookedUp(i, c2) /\ DefinersOf(c2) # {})
                                => \E m \in 1..Len(ent.resolved_calls) :
                                      ResolutionOf(ent.resolved_calls[m], c2)
                          /\ (HasPathSeparator(c2) /\ c2 \notin HIDDEN_CALLS)
                                => InSeq(<<c2>>, ent.resolved_calls)

\* C13 witness: an entity calling doSomethingExternal, which nothing
\* defines, has been through resolution with another bare call of its
\* resolved and a qualified call kept.
C13_Witness ==
    \E at \in ResolvedEntities :
        LET ent == entities[at[1]][at[2]]
        IN  /\ "doSomethingExternal" \in ent.raw_calls
            /\ DefinersOf("doSomethingExternal") = {}
            /\ \E m \in 1..Len(ent.resolved_calls) :
                  ResolutionOf(ent.resolved_calls[m], "helper")
            /\ InSeq(<<"Grid::new">>, ent.resolved_calls)

\* The state file holds a session with nothing requested yet.
CleanSession(file) ==
    /\ load_request_state(file).requested_items = <<>>
    /\ load_request_state(file).request_count = 0

\* C14: no state of the session workflow is terminal: in every state
\* reached by outline, request, reset and status commands the reset command
\* can run and leaves a clean session, and so can an outline generation
\* (while the clock is below its bound).
C14_NoTerminalState ==
    clock < MaxClock =>
        /\ ENABLED (CmdReset /\ CleanSession(state_file'))
        /\ ENABLED (CmdOutline /\ CleanSession(state_file'))

\* C14 witness: the reset command has run on a session that had fulfilled
\* as many requests as the bound lets it.
C14_Witness ==
    /\ last_cmd = "reset"
    /\ load_request_state(prev_file).request_count = MaxRequests
    /\ CleanSession(state_file)

\* ------------------------------------------------------------------------
\* One whole run of a tool: the main of step1, of step2, and the outline
\* path of call_graph's main, each from its start to its exit.  The run
\* finds a project root that exists or not, source files that can be read
\* or not, and template, task and log files that are there or not.
\* ------------------------------------------------------------------------
Tools == {"step1", "step2", "call_graph"}

\* The source files a project tree can hold.
TreeFiles ==
    { [name |-> "grid.rs", readable |-> TRUE],
      [name |-> "form.tsx", readable |-> FALSE] }

\* log.log: not there, there without an ENTER/EXIT line, or naming functions.
LogFiles == {"missing", "empty", "roots"}

\* sys.exit has not been called and main has not returned.
Running == -1

\* Where each main starts.
FirstStep(t) ==
    IF t = "step1" THEN "root" ELSE IF t = "step2" THEN "config" ELSE "scan"

RunInit ==
    /\ \E t \in Tools, root_exists \in BOOLEAN, tree \in SUBSET TreeFiles,
          log \in LogFiles, template \in BOOLEAN, task \in BOOLEAN :
          /\ ~root_exists => tree = {}
          /\ run = [pc |-> FirstStep(t), tool |-> t,
                    root_exists |-> root_exists, tree |-> tree, log |-> log,
                    template |-> template, task |-> task,
                    template_content |-> "unset", task_content |-> "unset",
                    log_functions |-> "unset",
                    all_files |-> {}, parsed |-> {}, resolved |-> FALSE,
                    exit_code |-> Running, report |-> FALSE]
    /\ BraceIdle
    /\ PyIdle
    /\ GraphIdle
    /\ SessionIdle
    /\ procs = NoProcs
    /\ ExtIdle
    /\ HookIdle
    /\ LaterIdle

run_unchanged == <<brace_vars, py_vars, graph_vars, session_vars, procs, ext, hook, later_vars>>

\* step1 main 1161-1163, step2 main 2135-2137: the project root is checked
\* and a missing one ends the run with sys.exit(1).  call_graph's main has
\* no such step.
RunCheckRoot ==
    /\ run.pc = "root"
    /\ run' = IF run.root_exists
                 THEN [run EXCEPT !.pc = IF run.tool = "step1" THEN "config" ELSE "scan"]
              ELSE [run EXCEPT !.pc = "exit", !.exit_code = 1]
    /\ UNCHANGED run_unchanged

\* step1 main 1165-1188, step2 main 2105-2132: template, task and log are
\* used when they are there and replaced by defaults when they are not.
RunLoadConfig ==
    /\ run.pc = "config"
    /\ run' = [run EXCEPT
                  !.pc = IF run.tool = "step1" THEN "scan" ELSE "root",
                  !.template_content = IF run.template THEN "custom" ELSE "default",
                  !.task_content = IF run.task THEN "file" ELSE "default",
                  !.log_functions = IF run.tool = "step1" /\ run.log = "roots"
                                       THEN "found" ELSE "none"]
    /\ UNCHANGED run_unchanged

\* The walk of the tree.  step1 and step2 read each file with
\* read_file_safe, which gives "" for a file that cannot be read; step2
\* ends the run with sys.exit(0) when the walk finds no file; call_graph's
\* get_all_source_files collects paths only, and os.walk of a root that
\* does not exist yields nothing.
RunScan ==
    /\ run.pc = "scan"
    /\ LET found == { [name |-> f.name,
                       content |-> IF f.readable THEN "text" ELSE ""] : f \in run.tree }
       IN  run' = IF run.tool = "step2" /\ found = {}
                     THEN [run EXCEPT !.pc = "exit", !.exit_code = 0]
                  ELSE [run EXCEPT !.pc = "parse", !.all_files = found]
    /\ UNCHANGED run_unchanged

\* The parse loop: a file without content gives no entity (in call_graph
\* parse_file warns and returns None for a file it cannot read).
RunParse ==
    /\ run.pc = "parse"
    /\ run' = [run EXCEPT
                  !.pc = IF run.tool = "call_graph" THEN "log" ELSE "resolve",
                  !.parsed = { f.name : f \in { g \in run.all_files : g.content # "" } }]
    /\ UNCHANGED run_unchanged

\* call_graph main 2246-2255: parse_log_roots gives the empty set for a
\* missing log, and main returns when the set is empty.
RunParseLog ==
    /\ run.pc = "log"
    /\ run' = IF run.log = "roots"
                 THEN [run EXCEPT !.pc = "resolve", !.log_functions = "found"]
              ELSE [run EXCEPT !.pc = "exit", !.exit_code = 0, !.log_functions = "none"]
    /\ UNCHANGED run_unchanged

\* resolve_graph / resolve_dependencies / build_call_graph: a call or a
\* root that resolves to nothing is dropped.
RunResolve ==
    /\ run.pc = "resolve"
    /\ run' = [run EXCEPT !.pc = "report", !.resolved = TRUE]
    /\ UNCHANGED run_unchanged

\* The report is generated and put out; main returns.  call_graph reads
\* template and task here, with read_file_safe's defaults.
RunReport ==
    /\ run.pc = "report"
    /\ run' = [run EXCEPT
                  !.pc = "exit", !.exit_code = 0, !.report = TRUE,
                  !.template_content = IF run.tool # "call_graph" THEN @
                                       ELSE IF run.template THEN "custom" ELSE "default",
                  !.task_content = IF run.tool # "call_graph" THEN @
                                   ELSE IF run.task THEN "file" ELSE "default"]
    /\ UNCHANGED run_unchanged

RunNext ==
    \/ RunCheckRoot
    \/ RunLoadConfig
    \/ RunScan
    \/ RunParse
    \/ RunParseLog
    \/ RunResolve
    \/ RunReport

SpecRun == RunInit /\ [][RunNext]_vars

\* C15: a run ends with a non-zero exit code exactly when the project root
\* does not exist, and whatever else is missing or unreadable (files, log,
\* template, task) a run whose root exists goes on to its report.
C15_OnlyMissingRootStops ==
    run.pc = "exit" =>
        /\ run.exit_code # 0 <=> ~run.root_exists
        /\ run.root_exists => run.report

\* The same for step1 alone.
C15_Step1Only ==
    (run.pc = "exit" /\ run.tool = "step1") =>
        /\ run.exit_code # 0 <=> ~run.root_exists
        /\ run.root_exists => run.report

\* step2 differs in one case only: a tree without source files.
C15_Step2ButEmptyTree ==
    (run.pc = "exit" /\ run.tool = "step2" /\ run.tree # {}) =>
        /\ run.exit_code # 0 <=> ~run.root_exists
        /\ run.root_exists => run.report

\* call_graph never ends with a non-zero code, and reports exactly when
\* the log names functions.
C15_CallGraphIgnoresRoot ==
    (run.pc = "exit" /\ run.tool = "call_graph") =>
        /\ run.exit_code = 0
        /\ run.report <=> run.log = "roots"

\* ------------------------------------------------------------------------
\* Entity extraction from one file: parse_rust, parse_typescript and
\* parse_python of step1, TypeScriptParser and RustParser of step2.
\*
\* A source line is what the parsers' patterns see of it: its brace and
\* quote characters (text), the name the definition pattern matches on it
\* (fn, "" when it matches nothing), the names the call pattern finds on
\* it (calls), and for Python its kind and indent.
\* ------------------------------------------------------------------------
SrcLine(t, f, c, k, n) == [text |-> t, fn |-> f, calls |-> c, kind |-> k, indent |-> n]

RustLines ==
    { SrcLine(<<OPEN, CLOSE>>, "load", {"load", "parse"}, "code", 0),
          \* pub fn load(path: &str) -> Result<Data, Error> { parse(path) }
      SrcLine(<<OPEN>>, "parse", {"parse"}, "code", 0),
          \* fn parse(path: &str) -> Result<Data, Error> {
      SrcLine(<<"x">>, "", {"read"}, "code", 1),
          \*     read(path)
      SrcLine(<<CLOSE>>, "", {}, "code", 0),
          \* }
      SrcLine(<<"x", CLOSE>>, "", {"helper"}, "code", 1) }
          \*     helper(path) }

\* A TypeScript line, with what call_graph's line tests find in it: "=>"
\* and ");" for the substrings, "]);" where the dependency-array pattern
\* matches, "useEffect(" where use_effect_pattern matches (an indented line
\* that opens with useEffect(() =>).
SrcLineTs(t, f, c, n, marks) ==
    [text |-> t, fn |-> f, cls |-> "", calls |-> c, kind |-> "code", indent |-> n,
     marks |-> marks]

\* A TypeScript line the class pattern finds a name in.
SrcLineTsClass(t, f, cls, c) == [SrcLineTs(t, f, c, 0, {}) EXCEPT !.cls = cls]

TsLines ==
    { SrcLineTs(<<OPEN>>, "useForm", {}, 0, {"=>"}),
          \* const useForm = () => {
      SrcLineTs(<<OPEN>>, "", {"useEffect"}, 1, {"=>", "useEffect("}),
          \*   useEffect(() => {
      SrcLineTs(<<"x">>, "", {"validate"}, 2, {");"}),
          \*     validate(form);
      SrcLineTs(<<CLOSE>>, "", {}, 1, {");", "]);"}),
          \*   }, []);
      SrcLineTs(<<CLOSE>>, "", {}, 0, {}),
          \* }
      SrcLineTs(<<OPEN, OPEN, CLOSE, CLOSE>>, "useForm", {"useEffect", "validate"}, 0,
                {"=>", ");", "]);"}),
          \* const useForm = () => { useEffect(() => { validate(form); }, []); }
      SrcLineTsClass(<<OPEN, OPEN, CLOSE, CLOSE>>, "makeView", "View", {"makeView"}),
          \* export function makeView() { return class View {} }
      SrcLineTsClass(<<OPEN>>, "", "View", {}) }
          \* class View {

PyLines ==
    { SrcLine(<<>>, "f", {"f"}, "def", 0),          \* def f():
      SrcLine(<<>>, "", {"g"}, "code", 1),          \*     g(x)
      SrcLine(<<>>, "", {}, "blank", 0),            \* (blank)
      SrcLine(<<>>, "", {}, "comment", 0),          \* # note
      SrcLine(<<>>, "", {"h"}, "code", 0) }         \* y = h(2)

\* Scenario A of the spec: load and parse in one Rust file.
ScenarioA ==
    << SrcLine(<<OPEN, CLOSE>>, "load", {"load", "parse"}, "code", 0),
       SrcLine(<<OPEN>>, "parse", {"parse"}, "code", 0),
       SrcLine(<<"x">>, "", {"read"}, "code", 1),
       SrcLine(<<CLOSE>>, "", {}, "code", 0) >>

\* Scenario C of the spec: a hook holding one useEffect.
ScenarioC ==
    << SrcLineTs(<<OPEN>>, "useForm", {}, 0, {"=>"}),
       SrcLineTs(<<OPEN>>, "", {"useEffect"}, 1, {"=>", "useEffect("}),
       SrcLineTs(<<"x">>, "", {"validate"}, 2, {");"}),
       SrcLineTs(<<CLOSE>>, "", {}, 1, {");", "]);"}),
       SrcLineTs(<<CLOSE>>, "", {}, 0, {}) >>

\* Scenario C written on one line.
ScenarioCOneLine ==
    << SrcLineTs(<<OPEN, OPEN, CLOSE, CLOSE>>, "useForm", {"useEffect", "validate"}, 0,
                 {"=>", ");", "]);"}) >>

\* Rust lines with an attribute, a struct and a signature that goes on on
\* the next line: kind says which (the name the struct pattern finds is
\* in fn).
RustItemLines ==
    { SrcLine(<<"x">>, "", {}, "tauri", 0),
          \* #[tauri::command]
      SrcLine(<<"x">>, "save", {"save"}, "signature", 0),
          \* pub fn save(
      SrcLine(<<OPEN, CLOSE>>, "", {"write"}, "code", 0),
          \* ) -> Result<(), Error> { write(path) }
      SrcLine(<<OPEN, CLOSE>>, "load", {"load", "parse"}, "code", 0),
          \* pub fn load(path: &str) -> Result<Data, Error> { parse(path) }
      SrcLine(<<OPEN>>, "parse", {"parse"}, "code", 0),
          \* fn parse(path: &str) -> Result<Data, Error> {
      SrcLine(<<CLOSE>>, "", {}, "code", 0),
          \* }
      SrcLine(<<OPEN>>, "Data", {}, "struct", 0) }
          \* pub struct Data {

\* The three Rust parsers: step1 parse_rust, step2 RustParser and
\* call_graph's parse_rust_file.
RustParsers == {"step1_rust", "step2_rust", "cg_rust"}

\* The parsers: step1's three, step2's two, and call_graph's
\* parse_typescript_file.
Parsers == {"step1_rust", "step1_ts", "step1_py", "step2_rust", "step2_ts", "cg_ts"}

LinesOf(parser) ==
    IF parser \in {"step1_rust", "step2_rust"} THEN RustLines
    ELSE IF parser \in {"step1_ts", "step2_ts", "cg_ts"} THEN TsLines
    ELSE PyLines

\* The file the lines are of.
ExtFile(parser) ==
    IF parser \in {"step1_rust", "step2_rust", "cg_rust"}
        THEN [path |-> "/proj/src/a.rs", rel_path |-> "src/a.rs", base |-> "a.rs", extension |-> ".rs"]
    ELSE IF parser \in {"step1_ts", "step2_ts", "cg_ts"}
        THEN [path |-> "/proj/ui/form.tsx", rel_path |-> "ui/form.tsx", base |-> "form.tsx", extension |-> ".tsx"]
    ELSE [path |-> "/proj/tools/run.py", rel_path |-> "tools/run.py", base |-> "run.py", extension |-> ".py"]

ToolOf(parser) ==
    IF parser \in {"step2_rust", "step2_ts"} THEN "step2"
    ELSE IF parser \in {"cg_ts", "cg_rust"} THEN "call_graph"
    ELSE "step1"

\* The lines as the brace scanners read them.
Texts(ls) == [k \in 1..Len(ls) |-> ls[k].text]

\* lines[a - 1 : b], the lines a..b counted from 1: a slice stops at the
\* end of the list.
Slice(ls, a, b) == IF Min(b, Len(ls)) < a THEN <<>> ELSE SubSeq(ls, a, Min(b, Len(ls)))

\* call_pattern.findall(body), as a set.
CallsIn(body) == UNION { body[k].calls : k \in 1..Len(body) }

Entity(parser, name, line_start, line_end, body, raw_calls) ==
    [name |-> name, line_start |-> line_start, line_end |-> line_end, body |-> body,
     raw_calls |-> raw_calls, resolved_calls |-> <<>>,
     is_hook |-> FALSE, effect_markers |-> {}, pattern |-> "fn",
     is_tauri_command |-> FALSE,
     file_path |-> ExtFile(parser).path, rel_path |-> ExtFile(parser).rel_path]

\* step1 parse_rust, a line the fn pattern matches: line_end is
\* end_line + 1 and the body is lines[i:end_line].
RustEntityStep1(ls, i) ==
    LET end_line == find_closing_brace_step1(Texts(ls), i)
        body == Slice(ls, i, end_line - 1)
    IN  Entity("step1_rust", ls[i].fn, i, end_line, body,
               { c \in CallsIn(body) : c # ls[i].fn /\ c \notin ExcludedCalls })

\* step1 parse_typescript: the body is lines[i:ent.line_end].
TsEntityStep1(ls, i) ==
    LET end_line == find_closing_brace_step1(Texts(ls), i)
        body == Slice(ls, i, end_line)
    IN  Entity("step1_ts", ls[i].fn, i, end_line, body,
               { c \in CallsIn(body) : c # ls[i].fn /\ c \notin ExcludedCalls })

\* step1 parse_typescript, the class branch.
TsClassStep1(ls, i) ==
    LET end_line == find_closing_brace_step1(Texts(ls), i)
        body == Slice(ls, i, end_line)
    IN  [Entity("step1_ts", ls[i].cls, i, end_line, body,
                { c \in CallsIn(body) : c # ls[i].cls /\ c \notin ExcludedCalls })
            EXCEPT !.pattern = "class"]

\* step1 parse_typescript on one line: if match_fn ... elif match_class.
TsFoundStep1(ls, i) ==
    IF ls[i].fn # "" THEN << TsEntityStep1(ls, i) >>
    ELSE IF ls[i].cls # "" THEN << TsClassStep1(ls, i) >>
    ELSE <<>>

\* step1 parse_python: line_end from the indentation loop, the body is
\* lines[i:ent.line_end].
PyEntityStep1(ls, i) ==
    LET line_end == parse_python_line_end(ls, i)
        body == Slice(ls, i, line_end)
    IN  Entity("step1_py", ls[i].fn, i, line_end, body,
               { c \in CallsIn(body) : c # ls[i].fn /\ c \notin ExcludedCalls })

\* HOOK_PATTERN, ^use[A-Z][a-zA-Z0-9]*$, over the names the lines define.
IsHookName(name) == name \in {"useForm"}

\* step2 _create_function_entity (TypeScriptParser and RustParser): the
\* body is lines[line_idx:end_line + 1]; the calls are found later.
\* TypeScriptParser sets is_hook from the name, RustParser leaves it False.
EntityStep2(parser, ls, i) ==
    LET end_line == find_closing_brace_step2(Texts(ls), i)
    IN  [Entity(parser, ls[i].fn, i, end_line, Slice(ls, i, end_line), {})
            EXCEPT !.is_hook = (parser = "step2_ts" /\ IsHookName(ls[i].fn))]

ExtInit ==
    /\ \E parser \in Parsers :
          \E ls \in (SeqsUpTo(LinesOf(parser), MaxSrcLines) \ { <<>> })
                      \cup (IF parser \in {"step1_ts", "step2_ts", "cg_ts"}
                                THEN {ScenarioC} ELSE {}) :
              ext = [pc |-> "parse", parser |-> parser, lines |-> ls, i |-> 1,
                     pending_tauri_command |-> FALSE,
                     entities |-> <<>>, definitions |-> <<>>]
    /\ BraceIdle
    /\ PyIdle
    /\ GraphIdle
    /\ SessionIdle
    /\ procs = NoProcs
    /\ RunIdle
    /\ HookIdle
    /\ LaterIdle

\* step2 TypeScriptParser._create_class_entity.
ClassEntityStep2(ls, i) ==
    LET end_line == find_closing_brace_step2(Texts(ls), i)
    IN  [Entity("step2_ts", ls[i].cls, i, end_line, Slice(ls, i, end_line), {})
            EXCEPT !.pattern = "class"]

\* step2 TypeScriptParser._parse_entities on one line: the first of
\* FUNC_PATTERNS that matches makes an entity and breaks out of the loop
\* over FUNC_PATTERNS; the class pattern is then tried on the same line.
TsFoundStep2(ls, i) ==
    (IF ls[i].fn # "" THEN << EntityStep2("step2_ts", ls, i) >> ELSE <<>>)
        \o (IF ls[i].cls # "" THEN << ClassEntityStep2(ls, i) >> ELSE <<>>)

\* step1's fn pattern ends with the "(" after the name; step2's goes on to
\* the "{" after the parameter list, so it finds no function on a line
\* whose parameter list goes on on the next line.
FnStep1(line) == line.fn # "" /\ line.kind \in {"code", "signature"}

FnStep2(line) == line.fn # "" /\ line.kind = "code"

\* step1 parse_rust, a line the struct pattern matches: the entity is that
\* one line, without body or calls.
StructEntityStep1(ls, i) ==
    [Entity("step1_rust", ls[i].fn, i, i, <<>>, {}) EXCEPT !.pattern = "struct"]

\* step2 RustParser._create_struct_entity: the span runs to the closing
\* brace when the line holds "{"; the entity has no body.
StructEntityStep2(ls, i) ==
    LET end_line == IF Contains(ls[i].text, OPEN)
                        THEN find_closing_brace_step2(Texts(ls), i)
                        ELSE i
    IN  [Entity("step2_rust", ls[i].fn, i, end_line, <<>>, {}) EXCEPT !.pattern = "struct"]

\* The one function pattern of the Python parser.
FnFound(ls, i, entity) == IF ls[i].fn # "" THEN << entity >> ELSE <<>>

ext_unchanged == <<brace_vars, py_vars, graph_vars, session_vars, procs, run, hook, later_vars>>

\* One turn of a parser's loop over the lines: for i, line in enumerate(lines).
ParseLine(parser, found) ==
    /\ ext.pc = "parse"
    /\ ext.parser = parser
    /\ ext.i <= Len(ext.lines)
    /\ ext' = [ext EXCEPT !.i = @ + 1, !.entities = @ \o found]
    /\ UNCHANGED ext_unchanged

\* The Rust parsers of step1 and step2, one turn of the loop over the lines:
\* a #[tauri::command] line sets pending_tauri_command and nothing else is
\* looked for on it; a line the fn pattern matches makes a function that
\* takes the flag and clears it; a line the struct pattern matches makes a
\* struct and clears the flag; any other line leaves the flag as it is.
ParseRustLine(parser, is_fn, fn_entity, struct_entity) ==
    /\ ext.pc = "parse"
    /\ ext.parser = parser
    /\ ext.i <= Len(ext.lines)
    /\ LET line == ext.lines[ext.i]
       IN  ext' =
             IF line.kind = "tauri"
                 THEN [ext EXCEPT !.i = @ + 1, !.pending_tauri_command = TRUE]
             ELSE IF is_fn
                 THEN [ext EXCEPT
                          !.i = @ + 1,
                          !.entities = Append(@, [fn_entity EXCEPT
                              !.is_tauri_command = ext.pending_tauri_command]),
                          !.pending_tauri_command = FALSE]
             ELSE IF line.kind = "struct"
                 THEN [ext EXCEPT
                          !.i = @ + 1,
                          !.entities = Append(@, struct_entity),
                          !.pending_tauri_command = FALSE]
             ELSE [ext EXCEPT !.i = @ + 1]
    /\ UNCHANGED ext_unchanged

ExtParseRustStep1 ==
    ParseRustLine("step1_rust", FnStep1(ext.lines[ext.i]),
                  RustEntityStep1(ext.lines, ext.i), StructEntityStep1(ext.lines, ext.i))
ExtParseTsStep1 == ParseLine("step1_ts", TsFoundStep1(ext.lines, ext.i))
ExtParsePyStep1 ==
    ParseLine("step1_py", FnFound(ext.lines, ext.i, PyEntityStep1(ext.lines, ext.i)))
ExtParseRustStep2 ==
    ParseRustLine("step2_rust", FnStep2(ext.lines[ext.i]),
                  EntityStep2("step2_rust", ext.lines, ext.i),
                  StructEntityStep2(ext.lines, ext.i))
ExtParseTsStep2 == ParseLine("step2_ts", TsFoundStep2(ext.lines, ext.i))

\* The words of _analyze_effect_markers' SIDE_EFFECT pattern.
SideEffectWords ==
    {"useEffect", "useLayoutEffect", "addEventListener", "setTimeout", "setInterval"}

\* TypeScriptParser._analyze_effect_markers over a stored body: of the
\* patterns, the lines can match only SIDE_EFFECT's.  RustParser's
\* _analyze_rust_markers adds no effect marker to a plain fn.
EffectMarkers(parser, body) ==
    IF parser = "step2_ts" /\ CallsIn(body) \cap SideEffectWords # {}
        THEN {"SIDE_EFFECT"}
        ELSE {}

\* step2 _analyze_entities: the markers and the calls of every entity,
\* from its stored body.
ExtAnalyze ==
    /\ ext.pc = "parse"
    /\ ToolOf(ext.parser) = "step2"
    /\ ext.i > Len(ext.lines)
    /\ ext' = [ext EXCEPT
                  !.pc = "resolve",
                  !.entities = [k \in 1..Len(ext.entities) |->
                      [ext.entities[k] EXCEPT
                          !.effect_markers = EffectMarkers(ext.parser, ext.entities[k].body),
                          !.raw_calls =
                              { c \in CallsIn(ext.entities[k].body) :
                                    c # ext.entities[k].name /\ c \notin ExcludedCalls }]]]
    /\ UNCHANGED ext_unchanged

\* call_graph's Definition; the lines are counted from 1 here as everywhere
\* (call_graph itself stores them counted from 0).
Definition(name, start_line, end_line, content, func_calls) ==
    [kind |-> "function", name |-> name, start_line |-> start_line, end_line |-> end_line,
     content |-> content, func_calls |-> func_calls]

DictHas(d, key) == \E k \in 1..Len(d) : d[k].key = key

\* index.definitions[key] = definition: a dict keeps the place of a key it
\* already holds.
DictPut(d, key, definition) ==
    IF DictHas(d, key)
        THEN [k \in 1..Len(d) |->
                 IF d[k].key = key THEN [key |-> key, value |-> definition] ELSE d[k]]
        ELSE Append(d, [key |-> key, value |-> definition])

\* The first line of a set of lines, 0 when there is none.
FirstLine(S) == IF S = {} THEN 0 ELSE CHOOSE k \in S : \A m \in S : k <= m

\* call_graph parse_typescript_file, one turn of its while loop: the first
\* pattern of the list that matches the line (the function patterns come
\* before the class pattern, and the class pattern matches at the start of
\* a line only) registers one definition under its name with the span
\* find_matching_brace gives it, and the loop goes on after that span.
\* Every defining line of TsLines holds its opening brace.
ExtParseTsCallGraph ==
    /\ ext.pc = "parse"
    /\ ext.parser = "cg_ts"
    /\ ext.i <= Len(ext.lines)
    /\ LET line == ext.lines[ext.i]
           end_line == find_matching_brace(Texts(ext.lines), ext.i)
           kind == IF line.fn # "" THEN "function" ELSE "class"
           name == IF line.fn # "" THEN line.fn ELSE line.cls
       IN  ext' = IF line.fn = "" /\ line.cls = ""
                     THEN [ext EXCEPT !.i = @ + 1]
                     ELSE [ext EXCEPT
                              !.i = end_line + 1,
                              !.definitions = DictPut(@, <<name>>,
                                  [Definition(<<name>>, ext.i, end_line,
                                              Slice(ext.lines, ext.i, end_line), {})
                                      EXCEPT !.kind = kind])]
    /\ UNCHANGED ext_unchanged

\* inner_name of the n-th useEffect of a parent: "effect", then effect_n.
EffectName(n) ==
    IF n = 1 THEN "effect"
    ELSE <<"effect_2", "effect_3", "effect_4", "effect_5", "effect_6">>[n - 1]

\* The names extract_ts_function_calls never reports, of those the lines call.
NoiseCalls == {"useEffect"}

\* primary_name = f"{parent_name}.{inner_name}"; no line holds fnLog.enter.
PrimaryName(parent_name, inner_name) == parent_name \o <<".", inner_name>>

\* extract_hook_inner_functions, the while loop over one parent's lines.
RECURSIVE InnerScan(_, _, _, _, _)
InnerScan(parent, j, effect_counter, defs, all_func_names) ==
    LET inner_lines == parent.value.content
        n == Len(inner_lines)
    IN  IF j > n THEN [defs |-> defs, all_func_names |-> all_func_names]
        ELSE IF "useEffect(" \notin inner_lines[j].marks
            THEN InnerScan(parent, j + 1, effect_counter, defs, all_func_names)
        ELSE
            LET inner_name == EffectName(effect_counter + 1)
                brace_line == FirstLine({ k \in j..Min(j + 14, n) :
                                  /\ \E m \in j..k : "=>" \in inner_lines[m].marks
                                  /\ Contains(inner_lines[k].text, OPEN) })
                matched == find_matching_brace(Texts(inner_lines), brace_line)
                closing == FirstLine({ k \in matched..Min(matched + 9, n) :
                                  ");" \in inner_lines[k].marks })
                deps == FirstLine({ k \in j..Min(j + 19, n) :
                                  "]);" \in inner_lines[k].marks })
                inner_end == IF brace_line # 0
                                 THEN (IF closing # 0 THEN closing ELSE matched)
                                 ELSE (IF deps # 0 THEN deps ELSE j)
                inner_content == Slice(inner_lines, j, inner_end)
                func_calls == { c \in CallsIn(inner_content) :
                                   <<c>> \in all_func_names /\ c \notin NoiseCalls }
                primary_name == PrimaryName(parent.key, inner_name)
                inner_def == Definition(primary_name,
                                        parent.value.start_line + j - 1,
                                        parent.value.start_line + inner_end - 1,
                                        inner_content, func_calls)
                registered == DictPut(defs, primary_name, inner_def)
                aliased == IF DictHas(registered, <<inner_name>>)
                               THEN registered
                               ELSE DictPut(registered, <<inner_name>>, inner_def)
            IN  InnerScan(parent, inner_end + 1, effect_counter + 1, aliased,
                          all_func_names \cup {<<inner_name>>, primary_name})

\* extract_hook_inner_functions, the loop over list(index.definitions.items()).
RECURSIVE HookInnerOver(_, _, _, _)
HookInnerOver(parents, p, defs, all_func_names) ==
    IF p > Len(parents) THEN defs
    ELSE IF parents[p].value.kind # "function"
        THEN HookInnerOver(parents, p + 1, defs, all_func_names)
    ELSE LET r == InnerScan(parents[p], 1, 0, defs, all_func_names)
         IN  HookInnerOver(parents, p + 1, r.defs, r.all_func_names)

extract_hook_inner_functions(defs) ==
    HookInnerOver(defs, 1, defs, { defs[k].key : k \in 1..Len(defs) })

\* call_graph parse_typescript_file, after the loop: the second pass, and
\* the index is returned.
ExtHookInner ==
    /\ ext.pc = "parse"
    /\ ext.parser = "cg_ts"
    /\ ext.i > Len(ext.lines)
    /\ ext' = [ext EXCEPT
                  !.pc = "done",
                  !.definitions = extract_hook_inner_functions(@)]
    /\ UNCHANGED ext_unchanged

\* step1: the parse function returns.
ExtParsed ==
    /\ ext.pc = "parse"
    /\ ToolOf(ext.parser) = "step1"
    /\ ext.i > Len(ext.lines)
    /\ ext' = [ext EXCEPT !.pc = "resolve"]
    /\ UNCHANGED ext_unchanged

\* The orders this file's call names can iterate in.
ExtSeeds ==
    { <<"check", "helper", "load", "makeView", "parse", "read", "save", "useEffect",
         "validate", "write", "f", "g", "h">>,
      <<"h", "g", "f", "write", "validate", "useEffect", "save", "read", "parse", "makeView",
         "load", "helper", "check">> }

\* resolve_graph / resolve_dependencies over this file alone.
ExtResolve ==
    /\ ext.pc = "resolve"
    /\ \E seed \in ExtSeeds :
          LET table == BuildSymbolTable(<<ext.entities>>)
          IN  ext' = [ext EXCEPT
                        !.pc = "done",
                        !.entities = [k \in 1..Len(ext.entities) |->
                            [ext.entities[k] EXCEPT !.resolved_calls =
                                ResolveEntityCalls(ToolOf(ext.parser), table,
                                    ExtFile(ext.parser), ext.entities[k], seed)]]]
    /\ UNCHANGED ext_unchanged

ExtNext ==
    \/ ExtParseRustStep1
    \/ ExtParseTsStep1
    \/ ExtParsePyStep1
    \/ ExtParseRustStep2
    \/ ExtParseTsStep2
    \/ ExtParseTsCallGraph
    \/ ExtHookInner
    \/ ExtAnalyze
    \/ ExtParsed
    \/ ExtResolve

SpecExtract == ExtInit /\ [][ExtNext]_vars

\* ------------------------------------------------------------------------
\* The Rust parsers on files with attributes, structs and signatures that
\* run over several lines.
\* ------------------------------------------------------------------------
RustInit ==
    /\ \E parser \in RustParsers :
          \E ls \in SeqsUpTo(RustItemLines, MaxSrcLines) \ { <<>> } :
              ext = [pc |-> "parse", parser |-> parser, lines |-> ls, i |-> 1,
                     pending_tauri_command |-> FALSE,
                     entities |-> <<>>, definitions |-> <<>>]
    /\ BraceIdle
    /\ PyIdle
    /\ GraphIdle
    /\ SessionIdle
    /\ procs = NoProcs
    /\ RunIdle
    /\ HookIdle
    /\ LaterIdle

\* call_graph parse_rust_file, find_definition_start: the attribute lines
\* right above the declaration belong to the definition (no line of
\* RustItemLines is blank or a comment).
RECURSIVE find_definition_start(_, _)
find_definition_start(ls, line_num) ==
    IF line_num > 1 /\ ls[line_num - 1].kind = "tauri"
        THEN find_definition_start(ls, line_num - 1)
        ELSE line_num

\* call_graph parse_rust_file, one turn of its main while loop: a line
\* that starts with #[ is passed over; the first pattern of the list that
\* matches registers one definition, from find_definition_start to the
\* brace that matches the first "{" of the next lines, and the loop goes on
\* after that span.  No line of RustItemLines is in an impl block.
ExtParseRustCallGraph ==
    /\ ext.pc = "parse"
    /\ ext.parser = "cg_rust"
    /\ ext.i <= Len(ext.lines)
    /\ LET line == ext.lines[ext.i]
           n == Len(ext.lines)
           is_fn == line.fn # "" /\ line.kind \in {"code", "signature"}
           reach == IF is_fn THEN 14 ELSE 9
           brace_line == FirstLine({ j \in ext.i..Min(ext.i + reach, n) :
                                        Contains(ext.lines[j].text, OPEN) })
           end_line == IF brace_line # 0
                           THEN find_matching_brace(Texts(ext.lines), brace_line)
                           ELSE ext.i
           actual_start == find_definition_start(ext.lines, ext.i)
       IN  ext' = IF is_fn \/ line.kind = "struct"
                     THEN [ext EXCEPT
                              !.i = end_line + 1,
                              !.definitions = DictPut(@, <<line.fn>>,
                                  [Definition(<<line.fn>>, actual_start, end_line,
                                              Slice(ext.lines, actual_start, end_line), {})
                                      EXCEPT !.kind = IF is_fn THEN "function" ELSE "struct"])]
                     ELSE [ext EXCEPT !.i = @ + 1]
    /\ UNCHANGED ext_unchanged

\* The loop over the lines is over: parse_rust, RustParser._parse_entities
\* or parse_rust_file returns.
ExtRustParsed ==
    /\ ext.pc = "parse"
    /\ ext.parser \in RustParsers
    /\ ext.i > Len(ext.lines)
    /\ ext' = [ext EXCEPT !.pc = "done"]
    /\ UNCHANGED ext_unchanged

RustNext ==
    \/ ExtParseRustStep1
    \/ ExtParseRustStep2
    \/ ExtParseRustCallGraph
    \/ ExtRustParsed

SpecRust == RustInit /\ [][RustNext]_vars

\* The lines a..b of the file being parsed (those of them the file has).
SourceLines(a, b) ==
    [k \in 1..(Min(b, Len(ext.lines)) - a + 1) |-> ext.lines[a + k - 1]]

SpanAndBodyAgree(e) ==
    /\ e.line_end >= e.line_start
    /\ e.body = SourceLines(e.line_start, e.line_end)

\* C16: every extracted entity has end_line >= start_line, and its body
\* text, the text its calls are taken from, is exactly the source lines
\* start_line..end_line.
C16_SpanAndBody ==
    ext.pc # "idle" =>
        \A k \in 1..Len(ext.entities) : SpanAndBodyAgree(ext.entities[k])

\* The same for every parser but step1's parse_rust, and what parse_rust
\* keeps as the body instead: the lines up to the one before end_line.
C16_AllButStep1Rust ==
    (ext.pc # "idle" /\ ext.parser # "step1_rust") =>
        \A k \in 1..Len(ext.entities) : SpanAndBodyAgree(ext.entities[k])

C16_Step1RustBodyStopsShort ==
    (ext.pc # "idle" /\ ext.parser = "step1_rust") =>
        \A k \in 1..Len(ext.entities) :
            /\ ext.entities[k].line_end >= ext.entities[k].line_start
            /\ ext.entities[k].body
                  = SourceLines(ext.entities[k].line_start, ext.entities[k].line_end - 1)

\* C17: in Scenario A the entity load has exactly one raw call, parse, and
\* resolution gives it self :: parse.
C17_ScenarioA ==
    (ext.pc = "done" /\ ext.lines = ScenarioA) =>
        /\ ext.entities[1].name = "load"
        /\ ext.entities[1].raw_calls = {"parse"}
        /\ ext.entities[1].resolved_calls = << <<"self", " :: ", "parse">> >>

\* The same with step2's RustParser alone.
C17_ScenarioAStep2 ==
    (ext.pc = "done" /\ ext.lines = ScenarioA /\ ext.parser = "step2_rust") =>
        /\ ext.entities[1].name = "load"
        /\ ext.entities[1].raw_calls = {"parse"}
        /\ ext.entities[1].resolved_calls = << <<"self", " :: ", "parse">> >>

\* step2's run of Scenario A ends.
C17_ScenarioAStep2Reached ==
    ext.pc = "done" /\ ext.lines = ScenarioA /\ ext.parser = "step2_rust"

\* Scenario C reaches the end of a parser that tags hooks (step2's
\* TypeScriptParser) or registers nested effects (call_graph).
ScenarioCParsed ==
    /\ ext.pc = "done"
    /\ ext.lines \in {ScenarioC, ScenarioCOneLine}
    /\ ext.parser \in {"step2_ts", "cg_ts"}

\* step2's tags of useForm.
HookTagged ==
    /\ Len(ext.entities) = 1
    /\ ext.entities[1].name = "useForm"
    /\ ext.entities[1].is_hook
    /\ "SIDE_EFFECT" \in ext.entities[1].effect_markers

\* call_graph's nested effect entity, under the parent's qualified name.
EffectRegistered ==
    \E k \in 1..Len(ext.definitions) :
        /\ ext.definitions[k].key = <<"useForm", ".", "effect">>
        /\ ext.definitions[k].value.name = <<"useForm", ".", "effect">>

\* C18: for a TSX file with const useForm = () => { useEffect(() => { ... },
\* []); } the entity useForm is tagged is_hook = true, its effect_markers
\* include SIDE_EFFECT, and a nested effect entity named useForm.effect is
\* registered under the parent's qualified name.
C18_ScenarioC ==
    ScenarioCParsed =>
        /\ ext.parser = "step2_ts" => HookTagged
        /\ ext.parser = "cg_ts" => EffectRegistered

\* step2 tags useForm whichever way the file is laid out.
C18_Step2Tags ==
    (ScenarioCParsed /\ ext.parser = "step2_ts") => HookTagged

C18_Step2TagsReached ==
    ScenarioCParsed /\ ext.parser = "step2_ts" /\ ext.lines = ScenarioCOneLine

\* call_graph registers useForm.effect, spanning the useEffect call, when
\* the call opens a line of its own.
C18_EffectOnItsOwnLine ==
    (ScenarioCParsed /\ ext.parser = "cg_ts" /\ ext.lines = ScenarioC) =>
        /\ EffectRegistered
        /\ \A k \in 1..Len(ext.definitions) :
              ext.definitions[k].key = <<"useForm", ".", "effect">> =>
                  /\ ext.definitions[k].value.start_line = 2
                  /\ ext.definitions[k].value.end_line = 4

C18_EffectOnItsOwnLineReached ==
    ScenarioCParsed /\ ext.parser = "cg_ts" /\ ext.lines = ScenarioC /\ EffectRegistered

\* With the hook written on one line call_graph registers useForm alone.
C18_OneLineNoEffect ==
    (ScenarioCParsed /\ ext.parser = "cg_ts" /\ ext.lines = ScenarioCOneLine) =>
        /\ Len(ext.definitions) = 1
        /\ ext.definitions[1].key = <<"useForm">>

\* ------------------------------------------------------------------------
\* Quote tracking of the character scanners.
\* ------------------------------------------------------------------------
\* old/diagnose_ts_parsing.py carries its own find_matching_brace, the same
\* text as call_graph's.
diagnose_find_matching_brace(ls, start) == MatchScan(ls, start, ScanInit)

\* The scanner's locals when its outer loop reaches line i.
RECURSIVE Step2Entry(_, _, _)
Step2Entry(ls, start, i) ==
    IF i <= start THEN ScanInit
    ELSE Step2Line(ls[i - 1], 1, Step2Entry(ls, start, i - 1))

RECURSIVE MatchEntry(_, _, _)
MatchEntry(ls, start, i) ==
    IF i <= start THEN ScanInit
    ELSE MatchLine(ls[i - 1], 1, MatchEntry(ls, start, i - 1))

\* The locals before and after character j of line i.  The line holds no
\* comment where these are used, so the inner loop reaches every character.
Step2Before(ls, start, i, j) == Step2Line(SubSeq(ls[i], 1, j - 1), 1, Step2Entry(ls, start, i))
Step2Past(ls, start, i, j) == Step2Line(SubSeq(ls[i], 1, j), 1, Step2Entry(ls, start, i))
MatchBefore(ls, start, i, j) == MatchLine(SubSeq(ls[i], 1, j - 1), 1, MatchEntry(ls, start, i))
MatchPast(ls, start, i, j) == MatchLine(SubSeq(ls[i], 1, j), 1, MatchEntry(ls, start, i))

HasComment(line) == \E k \in 1..(Len(line) - 1) : line[k] = SLASH /\ line[k + 1] = SLASH

\* Character j of line i is the quote character of the string literal the
\* scan is inside when it reaches it.
QuoteInString(before, line, j) ==
    /\ ~HasComment(line)
    /\ before.in_string
    /\ line[j] = before.string_char

\* The scan is still inside the literal after the quote exactly when an odd
\* number of backslashes precedes the quote.
EscapedByParity(past, line, j) ==
    past.in_string = (BackslashesBefore(line, j - 1) % 2 = 1)

Step2QuotesByParity ==
    res_step2 # 0 =>
        \A i \in start_index..res_step2 : \A j \in 1..Len(lines[i]) :
            QuoteInString(Step2Before(lines, start_index, i, j), lines[i], j)
                => EscapedByParity(Step2Past(lines, start_index, i, j), lines[i], j)

MatchQuotesByParity ==
    res_cg # 0 =>
        \A i \in start_index..res_cg : \A j \in 1..Len(lines[i]) :
            QuoteInString(MatchBefore(lines, start_index, i, j), lines[i], j)
                => EscapedByParity(MatchPast(lines, start_index, i, j), lines[i], j)

\* C19: while tracking open-quote state character by character, the
\* C-style scanner treats a quote preceded by an odd number of backslashes
\* as escaped, not closing the string; a quote preceded by an even number
\* of backslashes (zero included) closes it, so that braces after it are
\* counted again.
C19_QuoteEscapeParity ==
    /\ Step2QuotesByParity
    /\ MatchQuotesByParity

\* call_graph's scanner (and diagnose_ts_parsing's, the same text) keeps
\* the claim.
C19_CallGraphByParity == MatchQuotesByParity

\* call_graph's scan has passed a quote that two backslashes precede.
C19_CallGraphByParityReached ==
    /\ res_cg # 0
    /\ \E i \in start_index..res_cg : \E j \in 1..Len(lines[i]) :
          /\ QuoteInString(MatchBefore(lines, start_index, i, j), lines[i], j)
          /\ BackslashesBefore(lines[i], j - 1) = 2
          /\ ~MatchPast(lines, start_index, i, j).in_string

\* step2's scanner takes a quote for escaped whenever any backslash
\* precedes it.
C19_Step2AnyBackslashEscapes ==
    res_step2 # 0 =>
        \A i \in start_index..res_step2 : \A j \in 1..Len(lines[i]) :
            QuoteInString(Step2Before(lines, start_index, i, j), lines[i], j)
                => (Step2Past(lines, start_index, i, j).in_string
                        = (BackslashesBefore(lines[i], j - 1) >= 1))

\* The brace after a literal that ends in an escaped backslash: call_graph
\* counts it, step2 does not.
C19_BraceAfterEscapedBackslash ==
    (lines = << <<OPEN>>, <<DQ, BSL, BSL, DQ, CLOSE>>, <<"x">> >> /\ start_index = 1) =>
        /\ res_cg # 0 => res_cg = 2
        /\ res_step2 # 0 => res_step2 = 3

\* ------------------------------------------------------------------------
\* Hook composition: step1 generate_hook_composition and step2
\* generate_hook_composition_tree.  The input is the custom hooks of the
\* project, each with the list of hooks it uses (step1 ent.hook_dependencies,
\* step2 comp.uses_hooks); the output is the lines rendered.
\* ------------------------------------------------------------------------
\* The hook names, in sorted() order.
HookOrder == <<"useA", "useB", "useC">>
HookNames == SeqToSet(HookOrder)

\* sorted(names)
RECURSIVE SortedFrom(_, _)
SortedFrom(names, k) ==
    IF k > Len(HookOrder) THEN <<>>
    ELSE (IF HookOrder[k] \in names THEN <<HookOrder[k]>> ELSE <<>>) \o SortedFrom(names, k + 1)

Sorted(names) == SortedFrom(names, 1)

\* The lists of distinct names a hook's dependencies can be.
DistinctSeqs(names) ==
    { d \in SeqsUpTo(names, MaxDeps) : \A a, b \in 1..Len(d) : a # b => d[a] # d[b] }

\* step1 extract_hook_dependencies: the hooks of the project (all_hook_names)
\* called in the body, each once; the body begins at the defining line, so
\* a hook declared as function useA( is among its own dependencies.
\* step2 _analyze_hooks_used and build_hook_compositions: the custom hooks
\* called, never the hook itself, whether the project defines them or not.
DepLists(t, defined, name) ==
    IF t = "step1" THEN DistinctSeqs(defined)
    ELSE DistinctSeqs(HookNames \ {name})

HookInit ==
    /\ \E t \in {"step1", "step2"} : \E defined \in SUBSET HookNames :
          \E hooks \in [defined -> DistinctSeqs(HookNames)] :
              /\ \A name \in defined : hooks[name] \in DepLists(t, defined, name)
              /\ hook = [pc |-> "collect", tool |-> t, hooks |-> hooks,
                         roots |-> <<>>, k |-> 1, rendered |-> {}, lines |-> <<>>]
    /\ BraceIdle
    /\ PyIdle
    /\ GraphIdle
    /\ SessionIdle
    /\ procs = NoProcs
    /\ RunIdle
    /\ ExtIdle
    /\ LaterIdle

hook_unchanged == <<brace_vars, py_vars, graph_vars, session_vars, procs, run, ext, later_vars>>

\* The lines of the output.  The banner stands for the fixed lines each
\* generator starts with.
BannerLine == [kind |-> "banner", indent |-> 0, name |-> "", deps |-> <<>>]
BlankLine == [kind |-> "blank", indent |-> 0, name |-> "", deps |-> <<>>]
\* step1: prefix + hook_name + " -> " + ", ".join(deps); step2: prefix +
\* connector + comp.name
HookLine(indent, name, deps) == [kind |-> "hook", indent |-> indent, name |-> name, deps |-> deps]
\* step1: prefix + "  (circular: name)"
CircularLine(indent, name) == [kind |-> "circular", indent |-> indent, name |-> name, deps |-> <<>>]
\* step2: prefix + "    Uses: " + ", ".join(comp.uses_hooks)
UsesLine(indent, deps) == [kind |-> "uses", indent |-> indent, name |-> "", deps |-> deps]

\* all_deps / all_used: every name some hook lists.
AllDeps(hooks) == UNION { SeqToSet(hooks[name]) : name \in DOMAIN hooks }

\* step1 render_hook_tree and the loop over deps inside it.
RECURSIVE render_hook_tree(_, _, _, _)
RECURSIVE RenderDepsStep1(_, _, _, _, _)
render_hook_tree(hooks, hook_name, indent, visited) ==
    IF hook_name \in visited THEN << CircularLine(indent, hook_name) >>
    ELSE IF hook_name \notin DOMAIN hooks THEN <<>>
    ELSE << HookLine(indent, hook_name, hooks[hook_name]) >>
            \o RenderDepsStep1(hooks, hooks[hook_name], 1, indent, visited \cup {hook_name})

RenderDepsStep1(hooks, deps, d, indent, visited) ==
    IF d > Len(deps) THEN <<>>
    ELSE (IF deps[d] \in DOMAIN hooks /\ deps[d] \notin visited
             THEN render_hook_tree(hooks, deps[d], indent + 1, visited)
             ELSE <<>>)
         \o RenderDepsStep1(hooks, deps, d + 1, indent, visited)

\* step2 render_tree and the loop over comp.uses_hooks inside it; visited is
\* one set shared by the whole tree of a root.  The hooks here have no
\* extracted return shape and no inferred purpose.
RECURSIVE render_tree(_, _, _, _)
RECURSIVE RenderDepsStep2(_, _, _, _, _)
render_tree(lookup, name, indent, visited) ==
    LET below == RenderDepsStep2(lookup, lookup[name], 1, indent, visited)
    IN  [lines |-> << HookLine(indent, name, <<>>) >>
                      \o (IF lookup[name] # <<>> THEN << UsesLine(indent, lookup[name]) >> ELSE <<>>)
                      \o << BlankLine >>
                      \o below.lines,
         visited |-> below.visited]

RenderDepsStep2(lookup, uses_hooks, d, indent, visited) ==
    IF d > Len(uses_hooks) THEN [lines |-> <<>>, visited |-> visited]
    ELSE IF uses_hooks[d] \in DOMAIN lookup /\ uses_hooks[d] \notin visited
        THEN LET child == render_tree(lookup, uses_hooks[d], indent + 1,
                                      visited \cup {uses_hooks[d]})
                 rest == RenderDepsStep2(lookup, uses_hooks, d + 1, indent, child.visited)
             IN  [lines |-> child.lines \o rest.lines, visited |-> rest.visited]
        ELSE RenderDepsStep2(lookup, uses_hooks, d + 1, indent, visited)

\* The first hook name re.search finds in each line.
NamesIn(ls) == { ls[k].name : k \in { m \in 1..Len(ls) : ls[m].kind \in {"hook", "circular"} } }

\* step1 generate_hook_composition up to its render loop: no hooks gives
\* the empty string; the roots are the hooks no dependency list holds, and
\* all the hooks when there is no such hook.
HookCollectStep1 ==
    /\ hook.pc = "collect"
    /\ hook.tool = "step1"
    /\ LET names == DOMAIN hook.hooks
           root_hooks == names \ AllDeps(hook.hooks)
       IN  hook' = IF names = {} THEN [hook EXCEPT !.pc = "done"]
                   ELSE [hook EXCEPT
                            !.pc = "render",
                            !.roots = Sorted(IF root_hooks = {} THEN names ELSE root_hooks),
                            !.lines = << BannerLine >>]
    /\ UNCHANGED hook_unchanged

\* One turn of: for root in sorted(root_hooks).
HookRenderStep1 ==
    /\ hook.pc = "render"
    /\ hook.tool = "step1"
    /\ hook.k <= Len(hook.roots)
    /\ LET root == hook.roots[hook.k]
           tree_lines == render_hook_tree(hook.hooks, root, 0, {})
       IN  hook' = IF root \in hook.rendered
                      THEN [hook EXCEPT !.k = @ + 1]
                      ELSE [hook EXCEPT
                               !.k = @ + 1,
                               !.lines = @ \o tree_lines,
                               !.rendered = @ \cup NamesIn(tree_lines)]
    /\ UNCHANGED hook_unchanged

\* lines.append("") and the return.
HookDoneStep1 ==
    /\ hook.pc = "render"
    /\ hook.tool = "step1"
    /\ hook.k > Len(hook.roots)
    /\ hook' = [hook EXCEPT !.pc = "done", !.lines = Append(@, BlankLine)]
    /\ UNCHANGED hook_unchanged

\* step2 generate_hook_composition_tree up to its render loop: no
\* compositions gives the banner and "No custom hooks found."; the roots
\* are the compositions no uses_hooks list holds.
HookCollectStep2 ==
    /\ hook.pc = "collect"
    /\ hook.tool = "step2"
    /\ LET names == DOMAIN hook.hooks
       IN  hook' = IF names = {}
                      THEN [hook EXCEPT
                               !.pc = "done",
                               !.lines = << BannerLine,
                                            [kind |-> "none", indent |-> 0, name |-> "",
                                             deps |-> <<>>] >>]
                      ELSE [hook EXCEPT
                               !.pc = "render",
                               !.roots = Sorted(names \ AllDeps(hook.hooks)),
                               !.lines = << BannerLine >>]
    /\ UNCHANGED hook_unchanged

\* One turn of: for root in sorted(roots, key=lambda x: x.name).
HookRenderStep2 ==
    /\ hook.pc = "render"
    /\ hook.tool = "step2"
    /\ hook.k <= Len(hook.roots)
    /\ LET root == hook.roots[hook.k]
       IN  hook' = [hook EXCEPT
                       !.k = @ + 1,
                       !.lines = @ \o render_tree(hook.hooks, root, 0, {root}).lines]
    /\ UNCHANGED hook_unchanged

\* The return.
HookDoneStep2 ==
    /\ hook.pc = "render"
    /\ hook.tool = "step2"
    /\ hook.k > Len(hook.roots)
    /\ hook' = [hook EXCEPT !.pc = "done"]
    /\ UNCHANGED hook_unchanged

HookNext ==
    \/ HookCollectStep1
    \/ HookRenderStep1
    \/ HookDoneStep1
    \/ HookCollectStep2
    \/ HookRenderStep2
    \/ HookDoneStep2

SpecHooks == HookInit /\ [][HookNext]_vars

\* The hooks no other hook lists among its dependencies.
UnreferencedHooks(hooks) ==
    { h \in DOMAIN hooks : \A g \in (DOMAIN hooks) \ {h} : h \notin SeqToSet(hooks[g]) }

OutlineEntry(indent, name, circular) == [indent |-> indent, name |-> name, circular |-> circular]

\* The tree of a hook, depth first: the hook, then the tree of each hook it
\* uses; a name already on the path is a circular entry with nothing below.
RECURSIVE DepthFirst(_, _, _, _)
RECURSIVE DepthFirstDeps(_, _, _, _, _)
DepthFirst(hooks, name, indent, path) ==
    IF name \in path THEN << OutlineEntry(indent, name, TRUE) >>
    ELSE << OutlineEntry(indent, name, FALSE) >>
            \o DepthFirstDeps(hooks, hooks[name], 1, indent + 1, path \cup {name})

DepthFirstDeps(hooks, deps, d, indent, path) ==
    IF d > Len(deps) THEN <<>>
    ELSE (IF deps[d] \in DOMAIN hooks THEN DepthFirst(hooks, deps[d], indent, path) ELSE <<>>)
         \o DepthFirstDeps(hooks, deps, d + 1, indent, path)

RECURSIVE Forest(_, _, _)
Forest(hooks, roots, k) ==
    IF k > Len(roots) THEN <<>>
    ELSE DepthFirst(hooks, roots[k], 0, {}) \o Forest(hooks, roots, k + 1)

\* The hook and circular lines of the output, in order.
IsTreeLine(l) == l.kind \in {"hook", "circular"}
AsEntry(l) == OutlineEntry(l.indent, l.name, l.kind = "circular")
Outline(ls) ==
    LET kept == SelectSeq(ls, IsTreeLine)
    IN  [k \in 1..Len(kept) |-> AsEntry(kept[k])]

NotCircular(e) == ~e.circular

\* C20: hook composition rendering takes the hooks never referenced as
\* dependencies of other hooks as roots and renders each root's dependency
\* tree depth first with cycle detection: a hook name already on the
\* current path renders as (circular: name) and descent stops there.
C20_HookForest ==
    hook.pc = "done" =>
        Outline(hook.lines) = Forest(hook.hooks, Sorted(UnreferencedHooks(hook.hooks)), 1)

\* Neither generator ever renders a circular line.
C20_NoCircularLine ==
    hook.pc # "idle" => \A k \in 1..Len(hook.lines) : hook.lines[k].kind # "circular"

\* A dependency cycle has been rendered.
C20_CycleRendered ==
    /\ hook.pc = "done"
    /\ \E k \in 1..Len(Forest(hook.hooks, Sorted(UnreferencedHooks(hook.hooks)), 1)) :
          Forest(hook.hooks, Sorted(UnreferencedHooks(hook.hooks)), 1)[k].circular

\* step1, when some hook is unreferenced and no hook lists itself: the
\* claimed forest but for its circular lines, which are left out.
C20_Step1ApartFromCircular ==
    (/\ hook.pc = "done"
     /\ hook.tool = "step1"
     /\ UnreferencedHooks(hook.hooks) # {}
     /\ \A h \in DOMAIN hook.hooks : h \notin SeqToSet(hook.hooks[h])) =>
        Outline(hook.lines)
            = SelectSeq(Forest(hook.hooks, Sorted(UnreferencedHooks(hook.hooks)), 1),
                        NotCircular)

\* step1 has no root for a hook that lists itself while another hook is a
\* root: the hook is left out of the output.
C20_Step1SelfListedLeftOut ==
    (/\ hook.pc = "done"
     /\ hook.tool = "step1"
     /\ hook.hooks = [h \in {"useA", "useB"} |-> IF h = "useA" THEN <<"useA">> ELSE <<>>]) =>
        Outline(hook.lines) = << OutlineEntry(0, "useB", FALSE) >>

\* step2's roots are the claimed ones, in sorted order.
C20_Step2Roots ==
    (hook.pc = "done" /\ hook.tool = "step2") =>
        SelectSeq(hook.lines, LAMBDA l : l.kind = "hook" /\ l.indent = 0)
            = [k \in 1..Len(Sorted(UnreferencedHooks(hook.hooks))) |->
                  HookLine(0, Sorted(UnreferencedHooks(hook.hooks))[k], <<>>)]

\* step2 renders a hook once in a root's tree, not once per path: with
\* useA using useB and useC, and useB using useC, useC appears under useB
\* only.
C20_Step2OncePerTree ==
    (/\ hook.pc = "done"
     /\ hook.tool = "step2"
     /\ hook.hooks = [h \in HookNames |->
                         IF h = "useA" THEN <<"useB", "useC">>
                         ELSE IF h = "useB" THEN <<"useC">> ELSE <<>>]) =>
        Outline(hook.lines) = << OutlineEntry(0, "useA", FALSE),
                                 OutlineEntry(1, "useB", FALSE),
                                 OutlineEntry(2, "useC", FALSE) >>

\* ------------------------------------------------------------------------
\* One line, one pattern (step1 parse_typescript, step2
\* TypeScriptParser._parse_entities, call_graph parse_typescript_file).
\* ------------------------------------------------------------------------

\* The entities and definitions a parser has made so far, as (line, type)
\* pairs: the line the match was on and the type of pattern that matched.
\* The second pass of call_graph (the parent.effect names) is not a line
\* pattern and is left out.
Extracted ==
    IF ext.pc = "idle" THEN {}
    ELSE { <<ext.entities[k].line_start, ext.entities[k].pattern>> :
               k \in 1..Len(ext.entities) }
         \cup (IF ext.pc = "parse"
                  THEN { <<ext.definitions[k].value.start_line, ext.definitions[k].value.kind>> :
                             k \in 1..Len(ext.definitions) }
                  ELSE {})

\* The line the parser has just passed matches the function pattern and
\* the class pattern both.
BothPatternsLine(parser) ==
    /\ ext.pc = "parse"
    /\ ext.parser = parser
    /\ \E k \in 1..Len(ext.lines) :
          /\ k < ext.i
          /\ ext.lines[k].fn # ""
          /\ ext.lines[k].cls # ""
          /\ \E x \in Extracted : x[1] = k

\* C21: a line that several extractor patterns match takes the first
\* pattern in priority order: no line of a file produces entities of two
\* pattern types.
C21_OnePatternPerLine ==
    \A x, y \in Extracted : x[1] = y[1] => x[2] = y[2]

\* C21, step1 and call_graph: a line the function pattern and the class
\* pattern both match produces the function alone.
C21_Step1AndCallGraphFirstPattern ==
    (ext.pc # "idle" /\ ext.parser \in {"step1_ts", "cg_ts"}) =>
        /\ \A x, y \in Extracted : x[1] = y[1] => x[2] = y[2]
        /\ \A k \in 1..Len(ext.lines) :
              (ext.lines[k].fn # "" /\ ext.lines[k].cls # "") =>
                  \A x \in Extracted : x[1] = k => x[2] \in {"fn", "function"}

C21_Step1FirstPatternReached == BothPatternsLine("step1_ts")

C21_CallGraphFirstPatternReached == BothPatternsLine("cg_ts")

\* C21, step2: the break after the first function pattern leaves only the
\* loop over the function patterns, and the class pattern is tried next on
\* the same line; a line both match produces a function and a class.
C21_Step2FunctionAndClass ==
    (ext.pc # "idle" /\ ext.parser = "step2_ts") =>
        \A k \in 1..Len(ext.lines) :
            (k < ext.i /\ ext.lines[k].fn # "" /\ ext.lines[k].cls # "") =>
                { x[2] : x \in { y \in Extracted : y[1] = k } } = {"fn", "class"}

C21_Step2FunctionAndClassReached == BothPatternsLine("step2_ts")

\* ------------------------------------------------------------------------
\* Hooks used, triggers and the integration layer flag of one entity
\* (step2 TypeScriptParser._analyze_hooks_used, _analyze_data_flow).
\* ------------------------------------------------------------------------
\* The most statements in the body of the entity.
MaxStmts == 4

STANDARD_REACT_HOOKS ==
    {"useState", "useEffect", "useCallback", "useMemo", "useRef",
     "useContext", "useReducer", "useLayoutEffect", "useImperativeHandle",
     "useDebugValue", "useDeferredValue", "useTransition", "useId",
     "useSyncExternalStore", "useInsertionEffect"}

\* A statement of the body, one to a line, with what the three patterns of
\* the analysis see of it.
Stmt(form, name) == [form |-> form, name |-> name]

FlowStmts ==
    { Stmt("destructure", "useStore"),     \* const { a } = useStore();
      Stmt("destructure", "useGrid"),      \* const { b } = useGrid();
      Stmt("assign", "useStore"),          \* const c = useStore();
      Stmt("assign", "useState"),          \* const [v, setV] = useState(0);
      Stmt("bare", "useStore"),            \* useStore();
      Stmt("bare", "useGrid"),             \* useGrid();
      Stmt("dispatch", "setCell"),         \* dispatch(setCell(v));
      Stmt("dispatch", "clear") }          \* dispatch(clear());

\* The entity is declared "export function <name>() {" and its body ends
\* with the line "}".
FlowNames == {"Grid", "useGrid"}

IsDecl(st) == st.form \in {"destructure", "assign"}

CallsHook(st) == st.form \in {"destructure", "assign", "bare"}

\* The last line of a set of lines, 0 when there is none.
LastLine(S) == IF S = {} THEN 0 ELSE CHOOSE k \in S : \A m \in S : m <= k

\* hook_pattern.finditer(body), the hook names of the matches in order,
\* from statement p on.  The pattern is
\*     (?:const|let)\s+\{?[^}]*\}?\s*=\s*(use[A-Z][a-zA-Z0-9]*)\s*\(
\* and a match starts at the first const.  [^}]* is greedy and runs over
\* line ends: from a destructuring const it stops at that statement's "}",
\* and the match is that statement's hook; from a plain const it runs on to
\* the next "}" of the body, so the match is the hook of the next
\* destructuring statement, or, when the next "}" is the one that ends the
\* body, the hook of the last plain const.
RECURSIVE HookPatternMatches(_, _)
HookPatternMatches(body, p) ==
    LET s == FirstLine({ k \in p..Len(body) : IsDecl(body[k]) })
        d == FirstLine({ k \in (s + 1)..Len(body) : body[k].form = "destructure" })
        a == LastLine({ k \in s..Len(body) : body[k].form = "assign" })
    IN  IF s = 0 THEN <<>>
        ELSE IF body[s].form = "destructure"
            THEN << body[s].name >> \o HookPatternMatches(body, s + 1)
        ELSE IF d # 0
            THEN << body[d].name >> \o HookPatternMatches(body, d + 1)
        ELSE << body[a].name >>

\* direct_pattern.finditer(body), the hook names in order: the declaring
\* line of a hook holds its own name before "(", then every statement that
\* calls a hook.
DirectPatternMatches(name, body) ==
    (IF name \in {"useGrid"} THEN << name >> ELSE <<>>)
        \o [k \in 1..Len(SelectSeq(body, CallsHook)) |-> SelectSeq(body, CallsHook)[k].name]

\* The second loop of _analyze_hooks_used.
RECURSIVE AppendUnseen(_, _, _, _)
AppendUnseen(name, found, k, hooks_used) ==
    IF k > Len(found) THEN hooks_used
    ELSE AppendUnseen(name, found, k + 1,
             IF found[k] # name /\ found[k] \notin SeqToSet(hooks_used)
                 THEN Append(hooks_used, found[k])
                 ELSE hooks_used)

\* _analyze_hooks_used: the first loop appends every match that is not the
\* entity's own name, the second only the names not yet in the list.
analyze_hooks_used(name, body) ==
    AppendUnseen(name, DirectPatternMatches(name, body), 1,
        SelectSeq(HookPatternMatches(body, 1), LAMBDA h : h # name))

\* trigger_str = "dispatch(" + action_name + ")"
TriggerStr(action_name) == << "dispatch(", action_name, ")" >>

\* The first loop of _analyze_data_flow.
RECURSIVE AppendTriggers(_, _, _)
AppendTriggers(body, k, triggers) ==
    IF k > Len(body) THEN triggers
    ELSE AppendTriggers(body, k + 1,
             IF body[k].form = "dispatch" /\ TriggerStr(body[k].name) \notin SeqToSet(triggers)
                 THEN Append(triggers, TriggerStr(body[k].name))
                 ELSE triggers)

\* custom_hooks_count = len([h for h in entity.hooks_used if h not in STANDARD_REACT_HOOKS])
custom_hooks_count(hooks_used) ==
    Len(SelectSeq(hooks_used, LAMBDA h : h \notin STANDARD_REACT_HOOKS))

FlowInit ==
    /\ \E name \in FlowNames :
          \E body \in SeqsUpTo(FlowStmts, MaxStmts) :
              flow = [pc |-> "hooks", name |-> name, body |-> body, hooks_used |-> <<>>,
                      triggers |-> <<>>, is_integration_layer |-> FALSE]
    /\ BraceIdle
    /\ PyIdle
    /\ GraphIdle
    /\ SessionIdle
    /\ procs = NoProcs
    /\ RunIdle
    /\ ExtIdle
    /\ HookIdle
    /\ BuildIdle

flow_unchanged ==
    <<brace_vars, py_vars, graph_vars, session_vars, procs, run, ext, hook, build>>

\* _analyze_entities: self._analyze_hooks_used(entity)
AnalyzeHooksUsed ==
    /\ flow.pc = "hooks"
    /\ flow' = [flow EXCEPT !.pc = "data_flow",
                            !.hooks_used = analyze_hooks_used(flow.name, flow.body)]
    /\ UNCHANGED flow_unchanged

\* _analyze_entities: self._analyze_data_flow(entity)
AnalyzeDataFlow ==
    /\ flow.pc = "data_flow"
    /\ LET triggers == AppendTriggers(flow.body, 1, flow.triggers)
           count == custom_hooks_count(flow.hooks_used)
       IN  flow' = [flow EXCEPT
                       !.pc = "done",
                       !.triggers = triggers,
                       !.is_integration_layer =
                           IF count >= 2 /\ triggers # <<>> THEN TRUE
                           ELSE IF count >= 1 /\ Len(triggers) >= 2 THEN TRUE
                           ELSE @]
    /\ UNCHANGED flow_unchanged

FlowNext ==
    \/ AnalyzeHooksUsed
    \/ AnalyzeDataFlow

SpecFlow == FlowInit /\ [][FlowNext]_vars

\* The custom hooks the entity uses: the hooks its statements call, the
\* standard ones and itself apart.
CustomHooksUsed ==
    ({ flow.body[k].name : k \in { m \in 1..Len(flow.body) : CallsHook(flow.body[m]) } }
        \ STANDARD_REACT_HOOKS) \ { flow.name }

\* The action creators the entity dispatches.
Dispatched ==
    { flow.body[k].name : k \in { m \in 1..Len(flow.body) : flow.body[m].form = "dispatch" } }

Qualifies ==
    \/ Cardinality(CustomHooksUsed) >= 2 /\ Cardinality(Dispatched) >= 1
    \/ Cardinality(CustomHooksUsed) >= 1 /\ Cardinality(Dispatched) >= 2

\* C22: an entity is classified as integration layer exactly when it uses
\* two or more distinct custom hooks and has a trigger, or uses a custom
\* hook and has two or more distinct triggers.
C22_IntegrationLayer ==
    flow.pc = "done" => (flow.is_integration_layer <=> Qualifies)

\* C22, the triggers: the list holds each dispatched action creator once.
C22_TriggersDistinct ==
    flow.pc = "done" =>
        /\ Cardinality(SeqToSet(flow.triggers)) = Len(flow.triggers)
        /\ SeqToSet(flow.triggers) = { TriggerStr(a) : a \in Dispatched }

C22_TriggersDistinctReached ==
    /\ flow.pc = "done"
    /\ Len(flow.triggers) = 1
    /\ Cardinality({ m \in 1..Len(flow.body) : flow.body[m].form = "dispatch" }) = 2

\* C22, the hooks: hooks_used holds the hooks the entity uses, and the
\* classification is the claimed one whenever no hook is in the list twice.
C22_WhenNoHookListedTwice ==
    flow.pc = "done" =>
        /\ SeqToSet(flow.hooks_used) \ STANDARD_REACT_HOOKS = CustomHooksUsed
        /\ (Cardinality(SeqToSet(flow.hooks_used)) = Len(flow.hooks_used)
               => (flow.is_integration_layer <=> Qualifies))

C22_WhenNoHookListedTwiceReached ==
    /\ flow.pc = "done"
    /\ flow.is_integration_layer
    /\ Cardinality(SeqToSet(flow.hooks_used)) = Len(flow.hooks_used)

\* C22, where it fails: an entity with one custom hook and one trigger is
\* classified as integration layer when the hook is in the list twice.
C22_OneHookCountedTwice ==
    /\ flow.pc = "done"
    /\ flow.is_integration_layer
    /\ Cardinality(CustomHooksUsed) = 1
    /\ Cardinality(Dispatched) = 1

\* ------------------------------------------------------------------------
\* Entry points (step1 parse_rust, step2 RustParser._parse_entities).
\* ------------------------------------------------------------------------
\* The functions step1 or step2 has extracted from the Rust file.
RustFunctions ==
    IF ext.pc # "idle" /\ ext.parser \in {"step1_rust", "step2_rust"}
        THEN { ext.entities[k] : k \in { m \in 1..Len(ext.entities) :
                                           ext.entities[m].pattern = "fn" } }
        ELSE {}

\* A #[tauri::command] line is the line right above line k.
DirectlyPreceded(k) == k > 1 /\ ext.lines[k - 1].kind = "tauri"

\* The lines the parser reads a declaration on.
Declares(k) ==
    \/ ext.lines[k].kind = "struct"
    \/ IF ext.parser = "step1_rust" THEN FnStep1(ext.lines[k]) ELSE FnStep2(ext.lines[k])

\* A #[tauri::command] line is above line k with no line between them that
\* the parser reads a declaration on.
PrecededByPending(k) ==
    \E a \in 1..(k - 1) :
        /\ ext.lines[a].kind = "tauri"
        /\ \A b \in (a + 1)..(k - 1) : ~Declares(b)

\* C23: a Rust function is marked is_tauri_command if and only if a
\* #[tauri::command] attribute line directly precedes its declaration line.
C23_TauriCommandIff ==
    \A e \in RustFunctions : e.is_tauri_command <=> DirectlyPreceded(e.line_start)

\* C23, one direction: a function with the attribute line right above its
\* declaration is marked.
C23_DirectlyPrecededMarked ==
    \A e \in RustFunctions : DirectlyPreceded(e.line_start) => e.is_tauri_command

C23_DirectlyPrecededMarkedReached ==
    \E e \in RustFunctions : DirectlyPreceded(e.line_start) /\ e.is_tauri_command

\* C23, what marks a function: the flag an attribute line sets stays set
\* over every line up to the next declaration the parser reads.
C23_MarkedWhilePending ==
    \A e \in RustFunctions : e.is_tauri_command <=> PrecededByPending(e.line_start)

C23_MarkedWhilePendingReached ==
    \E e \in RustFunctions :
        /\ e.is_tauri_command
        /\ ~DirectlyPreceded(e.line_start)
        /\ ext.parser = "step1_rust"

\* C23, step2: the attribute is on a function whose parameter list goes on
\* on the next line; step2 does not extract that function and marks the
\* function after it.
C23_Step2MarksTheFunctionAfter ==
    /\ ext.pc = "done"
    /\ ext.parser = "step2_rust"
    /\ Len(ext.lines) = 4
    /\ ext.lines[1].kind = "tauri"
    /\ ext.lines[2].kind = "signature"
    /\ Len(ext.entities) = 1
    /\ ext.entities[1].name = "load"
    /\ ext.entities[1].line_start = 4
    /\ ext.entities[1].is_tauri_command

\* C23, step1 on the same file: the function the attribute is on is
\* extracted and marked, the function after it is not marked.
C23_Step1MarksTheFunctionDeclaredReached ==
    /\ ext.pc = "done"
    /\ ext.parser = "step1_rust"
    /\ Len(ext.lines) = 4
    /\ ext.lines[1].kind = "tauri"
    /\ ext.lines[2].kind = "signature"
    /\ ext.lines[3].kind = "code" /\ ext.lines[3].fn = ""
    /\ ext.lines[4].fn = "load"

C23_Step1MarksTheFunctionDeclared ==
    (/\ ext.pc = "done"
     /\ ext.parser = "step1_rust"
     /\ Len(ext.lines) = 4
     /\ ext.lines[1].kind = "tauri"
     /\ ext.lines[2].kind = "signature"
     /\ ext.lines[3].kind = "code" /\ ext.lines[3].fn = ""
     /\ ext.lines[4].fn = "load")
        => /\ Len(ext.entities) = 2
           /\ ext.entities[1].name = "save" /\ ext.entities[1].is_tauri_command
           /\ ext.entities[2].name = "load" /\ ~ext.entities[2].is_tauri_command

\* ------------------------------------------------------------------------
\* Spans of the entities of one file.
\* ------------------------------------------------------------------------
\* What a parser has extracted from the file, each with its name and its
\* span.  step1 and step2 keep a list of entities; call_graph keeps a dict
\* of definitions, where a second key for the same definition (the short
\* name of a hook-inner function) is the same entry.
Spans ==
    IF ext.pc = "idle" THEN {}
    ELSE IF ToolOf(ext.parser) = "call_graph"
        THEN { [id |-> 0, name |-> ext.definitions[k].value.name,
                first |-> ext.definitions[k].value.start_line,
                last |-> ext.definitions[k].value.end_line] :
                   k \in 1..Len(ext.definitions) }
        ELSE { [id |-> k, name |-> << ext.entities[k].name >>,
                first |-> ext.entities[k].line_start,
                last |-> ext.entities[k].line_end] :
                   k \in 1..Len(ext.entities) }

Overlap(a, b) == a.first <= b.last /\ b.first <= a.last

Inside(a, b) == b.first <= a.first /\ a.last <= b.last

\* a is keyed parent.childName under b and lies in b's span.
NestedUnder(a, b) ==
    /\ Inside(a, b)
    /\ Len(a.name) = Len(b.name) + 2
    /\ SubSeq(a.name, 1, Len(b.name)) = b.name
    /\ a.name[Len(b.name) + 1] = "."

NoOverlap ==
    \A a, b \in Spans :
        (a # b /\ Overlap(a, b)) => (NestedUnder(a, b) \/ NestedUnder(b, a))

\* C24: the spans of the entities extracted from one file never overlap,
\* but for the entities a parser nests on purpose, keyed parent.childName.
C24_SpansDoNotOverlap == NoOverlap

\* C24, call_graph: parse_typescript_file goes on after the span of the
\* definition it has registered, and its hook-inner functions are keyed
\* under their parent.
C24_CallGraphSpans ==
    (ext.pc # "idle" /\ ext.parser = "cg_ts") => NoOverlap

C24_CallGraphSpansReached ==
    /\ ext.pc = "done"
    /\ ext.parser = "cg_ts"
    /\ \E a, b \in Spans : a # b /\ NestedUnder(a, b)

\* call_graph has passed over a declaration in the span of a definition.
C24_CallGraphPassedOverReached ==
    /\ ext.pc = "done"
    /\ ToolOf(ext.parser) = "call_graph"
    /\ \E k \in 1..Len(ext.lines) :
          /\ ext.lines[k].fn # ""
          /\ \E a \in Spans : a.first < k /\ k <= a.last /\ a.name # << ext.lines[k].fn >>
          /\ \A a \in Spans : a.first # k

\* C24, step1 and step2: every line is tried, so a function declared in
\* the body of another is an entity of its own, in the span of the other.
C24_DeclaredInsideReached ==
    /\ ext.pc = "done"
    /\ ext.parser = "step1_rust"
    /\ Len(ext.lines) = 3
    /\ Len(ext.entities) = 2
    /\ ext.entities[1].name = "parse"
    /\ ext.entities[1].line_start = 1 /\ ext.entities[1].line_end = 3
    /\ ext.entities[2].name = "load"
    /\ ext.entities[2].line_start = 2 /\ ext.entities[2].line_end = 2

C24_DeclaredInsideStep2Reached ==
    /\ ext.pc = "done"
    /\ ext.parser = "step2_ts"
    /\ \E a, b \in Spans :
          /\ a.name = << "useForm" >>
          /\ b.name = << "makeView" >>
          /\ a.first < b.first
          /\ b.last < a.last

\* C24, step1 and step2: outside the span of every other entity no two
\* entities overlap, except the two of one line in step2 (C21).
C24_OverlapOnlyWhenDeclaredInside ==
    (ext.pc # "idle" /\ ToolOf(ext.parser) # "call_graph") =>
        \A a, b \in Spans :
            (a # b /\ Overlap(a, b) /\ a.first <= b.first) =>
                (a.first < b.first \/ ext.parser = "step2_ts")

\* C24, call_graph's Rust parser: the definitions do not overlap.
C24_CallGraphRustSpans ==
    (ext.pc # "idle" /\ ext.parser = "cg_rust") => NoOverlap

C26_FollowUpEmits ==
    (last_cmd = "request" /\ load_request_state(prev_file).request_count > 0) =>
        LET new == last_request \ SeqToSet(load_request_state(prev_file).requested_items)
        IN  /\ new # {} => emitted = new
            /\ new = {} => emitted = last_request

\* C26 witness: a follow-up request mixing a new name and a provided one
\* has emitted the new one alone.
C26_MixedEmitsNew ==
    /\ last_cmd = "request"
    /\ load_request_state(prev_file).request_count > 0
    /\ flagged # {}
    /\ last_request \ flagged # {}
    /\ emitted = last_request \ flagged

\* C26, the other case reached: every name provided before, all emitted.
C26_AllProvidedEmittedAgain ==
    /\ last_cmd = "request"
    /\ load_request_state(prev_file).request_count > 0
    /\ last_request # {}
    /\ flagged = last_request
    /\ emitted = last_request

\* ------------------------------------------------------------------------
\* The call graph of an outline (old/call_graph.py build_call_graph).
\* ------------------------------------------------------------------------
\* The deepest max_depth, the most roots, the most calls of one definition.
MaxDepth == 2
MaxRoots == 2
MaxCalls == 2

\* The names def_lookup and the calls are over.
BuildNames == {"a", "b", "c"}

\* What def_lookup holds for a name: no definition, or one definition with
\* the names it calls.  (A second definition of a name is passed over:
\* "if func_name in call_graph: continue".)
DefinitionLists ==
    { <<>> } \cup { << [func_calls |-> calls] >> :
                       calls \in { c \in SUBSET BuildNames : Cardinality(c) <= MaxCalls } }

\* queue entries: (func_name, depth, caller), the caller None for a root.
NoCaller == ""

QueueEntry(func_name, depth, caller) ==
    [func_name |-> func_name, depth |-> depth, caller |-> caller]

BuildInit ==
    /\ \E def_lookup \in [BuildNames -> DefinitionLists] :
          \E roots \in { r \in SUBSET BuildNames : r # {} /\ Cardinality(r) <= MaxRoots } :
              \E max_depth \in 0..MaxDepth :
                  \E order \in Orderings(roots) :
                      build = [pc |-> "loop", def_lookup |-> def_lookup, roots |-> roots,
                               max_depth |-> max_depth,
                               queue |-> [k \in 1..Len(order) |->
                                             QueueEntry(order[k], 0, NoCaller)],
                               called_by |-> [n \in BuildNames |-> {}],
                               processed_funcs |-> {},
                               expanded |-> <<>>,
                               call_graph |-> <<>>]
    /\ BraceIdle
    /\ PyIdle
    /\ GraphIdle
    /\ SessionIdle
    /\ procs = NoProcs
    /\ RunIdle
    /\ ExtIdle
    /\ HookIdle
    /\ FlowIdle

build_unchanged ==
    <<brace_vars, py_vars, graph_vars, session_vars, procs, run, ext, hook, flow>>

\* The place a queue is popped at, were it popped at its end.
PopLast(queue) == Len(queue)

\* queue.pop(0)
PopPlace(queue) == 1

Without(queue, k) == SubSeq(queue, 1, k - 1) \o SubSeq(queue, k + 1, Len(queue))

\* processed_funcs left as it is.
AddNothing(processed_funcs, func_name) == processed_funcs

\* processed_funcs.add(func_name)
AddProcessed(processed_funcs, func_name) == processed_funcs \cup { func_name }

\* A name the call graph holds a node for.
InCallGraph(call_graph, func_name) ==
    \E k \in 1..Len(call_graph) : call_graph[k].qualified_name = func_name

\* One turn of the while loop of build_call_graph.  The entry is popped; an
\* entry deeper than max_depth is dropped; the caller is recorded; a name
\* already processed is dropped; the name is marked processed (expanded
\* keeps the order the names were marked in); a name with a definition and
\* no node yet gets its node, and when the node is above max_depth every
\* call not yet processed is queued one level deeper, in the order the set
\* of calls iterates in.
BuildLoop ==
    /\ build.pc = "loop"
    /\ build.queue # <<>>
    /\ LET at == PopPlace(build.queue)
           entry == build.queue[at]
           rest == Without(build.queue, at)
           func_name == entry.func_name
           depth == entry.depth
           called_by == IF entry.caller # NoCaller
                            THEN [build.called_by EXCEPT ![func_name] = @ \cup { entry.caller }]
                            ELSE build.called_by
           processed_funcs == AddProcessed(build.processed_funcs, func_name)
           expanded == Append(build.expanded, func_name)
       IN  IF depth > build.max_depth
               THEN build' = [build EXCEPT !.queue = rest]
           ELSE IF func_name \in build.processed_funcs
               THEN build' = [build EXCEPT !.queue = rest, !.called_by = called_by]
           ELSE IF build.def_lookup[func_name] = <<>>
                   \/ InCallGraph(build.call_graph, func_name)
               THEN build' = [build EXCEPT !.queue = rest, !.called_by = called_by,
                                           !.processed_funcs = processed_funcs,
                                           !.expanded = expanded]
           ELSE LET calls == build.def_lookup[func_name][1].func_calls
                    node == [qualified_name |-> func_name, calls |-> calls,
                             called_by |-> {}, depth |-> depth]
                IN  \E order \in Orderings(calls) :
                        LET queued == SelectSeq(order, LAMBDA c : c \notin processed_funcs)
                        IN  build' = [build EXCEPT
                                !.queue = IF depth < build.max_depth
                                    THEN rest \o [k \in 1..Len(queued) |->
                                                     QueueEntry(queued[k], depth + 1, func_name)]
                                    ELSE rest,
                                !.called_by = called_by,
                                !.processed_funcs = processed_funcs,
                                !.expanded = expanded,
                                !.call_graph = Append(@, node)]
    /\ UNCHANGED build_unchanged

\* After the loop: the callers recorded are put on the nodes.
BuildCalledBy ==
    /\ build.pc = "loop"
    /\ build.queue = <<>>
    /\ build' = [build EXCEPT
                    !.pc = "done",
                    !.call_graph = [k \in 1..Len(build.call_graph) |->
                        [build.call_graph[k] EXCEPT
                            !.called_by = build.called_by[build.call_graph[k].qualified_name]]]]
    /\ UNCHANGED build_unchanged

BuildNext ==
    \/ BuildLoop
    \/ BuildCalledBy

SpecBuild == BuildInit /\ [][BuildNext]_vars

\* build_call_graph is one sequential function: while it can take a step,
\* it takes it.
SpecBuildRuns == SpecBuild /\ WF_vars(BuildNext)

\* The nodes of the call graph, and the node of a name.
Nodes == SeqToSet(build.call_graph)

NodeOf(func_name) ==
    CHOOSE node \in Nodes : node.qualified_name = func_name

\* The names a name calls by its definition (none without a definition).
CallsOf(func_name) ==
    IF build.def_lookup[func_name] = <<>>
        THEN {}
        ELSE build.def_lookup[func_name][1].func_calls

\* No name twice in a sequence.
NoNameTwice(seq) ==
    \A j, k \in 1..Len(seq) : seq[j] = seq[k] => j = k

\* C27: build_call_graph terminates for every definition set and root set,
\* self-recursive and mutually recursive call relations included, and
\* expands each function name at most once: at every point of the loop the
\* names marked processed so far are all different, and the function comes
\* to its end.
C27_TerminatesExpandingOnce ==
    [](NoNameTwice(build.expanded)) /\ <>(build.pc = "done")

\* C27's case: the build has ended on definitions where a calls itself and
\* b and c call each other, all three with a node, and c was queued by a
\* and by b.
C27_RecursiveBuilt ==
    /\ build.pc = "done"
    /\ "a" \in CallsOf("a")
    /\ "c" \in CallsOf("b")
    /\ "b" \in CallsOf("c")
    /\ \A n \in BuildNames : InCallGraph(build.call_graph, n)
    /\ build.called_by["b"] # {}
    /\ build.called_by["c"] # {}

\* The names a chain of at most k calls leads to from a root; only a name
\* with a definition calls anything.
RECURSIVE WithinChain(_)
WithinChain(k) ==
    IF k = 0
        THEN build.roots
        ELSE WithinChain(k - 1) \cup UNION { CallsOf(n) : n \in WithinChain(k - 1) }

\* The length of the shortest call chain from any root to a name that some
\* chain leads to.
ShortestChain(func_name) ==
    CHOOSE k \in 0..Cardinality(BuildNames) :
        /\ func_name \in WithinChain(k)
        /\ \A j \in 0..(k - 1) : func_name \notin WithinChain(j)

\* C28: every node of the call graph has depth <= max_depth, and its depth
\* is the length of the shortest call chain from any root to it.
C28_DepthIsShortestChain ==
    \A node \in Nodes :
        /\ node.depth <= build.max_depth
        /\ \E k \in 0..Cardinality(BuildNames) : node.qualified_name \in WithinChain(k)
        /\ node.depth = ShortestChain(node.qualified_name)

\* C28's case: the build has ended with a node that a longer chain within
\* max_depth leads to as well: it is called by another node at its own
\* depth.
C28_LongerChainToo ==
    /\ build.pc = "done"
    /\ \E node, other \in Nodes :
          /\ node.depth >= 1
          /\ other.depth = node.depth
          /\ other.depth < build.max_depth
          /\ other.qualified_name # node.qualified_name
          /\ node.qualified_name \in other.calls

\* C28, the limit: the build has ended with a node at max_depth whose calls
\* have no node.
C28_NodeAtMaxDepth ==
    /\ build.pc = "done"
    /\ \E node \in Nodes :
          /\ node.depth = build.max_depth
          /\ \E c \in node.calls :
                /\ build.def_lookup[c] # <<>>
                /\ ~InCallGraph(build.call_graph, c)

\* The expanded functions whose call list contains a name: the nodes above
\* max_depth that call it.
ExpandedCallers(func_name) ==
    { node.qualified_name : node \in
        { n \in Nodes : n.depth < build.max_depth /\ func_name \in n.calls } }

\* C29: for every node N of the call graph built, N.called_by is exactly the
\* set of expanded functions (nodes of depth < max_depth) whose call list
\* contains N.
C29_CalledByExact ==
    build.pc = "done" =>
        \A node \in Nodes : node.called_by = ExpandedCallers(node.qualified_name)

\* C29, what the code keeps: every name in N.called_by is an expanded
\* function whose call list contains N.
C29_CalledByAreCallers ==
    build.pc = "done" =>
        \A node \in Nodes : node.called_by \subseteq ExpandedCallers(node.qualified_name)

C29_CalledByAreCallersReached ==
    /\ build.pc = "done"
    /\ \E node \in Nodes : Cardinality(node.called_by) = 2

\* C29, the caller that is left out: a function that calls itself is not in
\* its own called_by.
C29_SelfCallerLeftOut ==
    /\ build.pc = "done"
    /\ build.roots = {"a"}
    /\ CallsOf("a") = {"a"}
    /\ build.max_depth = 2
    /\ NodeOf("a").called_by = {}

\* C29, the callers kept depend on the order the set of calls iterates in:
\* a calls b and c, b calls c; c is called by a alone when c was queued
\* before b, by a and b when b was queued first.
C29_LaterCallerLeftOut ==
    /\ build.pc = "done"
    /\ build.roots = {"a"}
    /\ CallsOf("a") = {"b", "c"}
    /\ CallsOf("b") = {"c"}
    /\ build.max_depth = 2
    /\ InCallGraph(build.call_graph, "c")
    /\ NodeOf("c").called_by = {"a"}

C29_LaterCallerKept ==
    /\ build.pc = "done"
    /\ build.roots = {"a"}
    /\ CallsOf("a") = {"b", "c"}
    /\ CallsOf("b") = {"c"}
    /\ build.max_depth = 2
    /\ InCallGraph(build.call_graph, "c")
    /\ NodeOf("c").called_by = {"a", "b"}

\* ------------------------------------------------------------------------
\* The hook trees call by call: step1 render_hook_tree and step2
\* render_tree as the calls they make.  stack holds the calls that have not
\* returned yet, the root's first; a frame is the hook of the call, its
\* indent, the place d of its loop in the list of hooks it uses and its
\* visited set.  tree holds the lines of the root's tree so far: a call
\* puts its own lines first and the lines of the calls below after them, in
\* the order of the calls, which is the order the calls are entered in.
\* ------------------------------------------------------------------------
Frame(name, indent, visited) ==
    [name |-> name, indent |-> indent, d |-> 1, visited |-> visited]

WalkInit ==
    /\ \E t \in {"step1", "step2"} : \E defined \in SUBSET HookNames :
          \E hooks \in [defined -> DistinctSeqs(HookNames)] :
              /\ \A name \in defined : hooks[name] \in DepLists(t, defined, name)
              /\ hook = [pc |-> "collect", tool |-> t, hooks |-> hooks,
                         roots |-> <<>>, k |-> 1, rendered |-> {}, lines |-> <<>>,
                         stack |-> <<>>, tree |-> <<>>]
    /\ BraceIdle
    /\ PyIdle
    /\ GraphIdle
    /\ SessionIdle
    /\ procs = NoProcs
    /\ RunIdle
    /\ ExtIdle
    /\ LaterIdle

\* The frame of the call running, and the stack with d of that frame moved
\* on by one.
Top(stack) == stack[Len(stack)]

Advanced(stack) == [stack EXCEPT ![Len(stack)].d = @ + 1]

\* step1 render_hook_tree up to its loop: a name in visited gives the
\* circular line and returns, a name that is no hook returns nothing, a
\* hook gets its line and a frame with visited | {hook_name}.
CallStep1(stack, tree, hooks, hook_name, indent, visited) ==
    IF hook_name \in visited
        THEN [stack |-> stack, tree |-> Append(tree, CircularLine(indent, hook_name))]
    ELSE IF hook_name \notin DOMAIN hooks
        THEN [stack |-> stack, tree |-> tree]
    ELSE [stack |-> Append(stack, Frame(hook_name, indent, visited \cup {hook_name})),
          tree |-> Append(tree, HookLine(indent, hook_name, hooks[hook_name]))]

\* A turn of "for root in sorted(root_hooks)": a root already rendered is
\* passed over, otherwise render_hook_tree(root, 0, set()) is called.
HookEnterStep1 ==
    /\ hook.pc = "render"
    /\ hook.tool = "step1"
    /\ hook.k <= Len(hook.roots)
    /\ LET root == hook.roots[hook.k]
           call == CallStep1(<<>>, <<>>, hook.hooks, root, 0, {})
       IN  hook' = IF root \in hook.rendered
                      THEN [hook EXCEPT !.k = @ + 1]
                      ELSE [hook EXCEPT !.pc = "tree", !.stack = call.stack,
                                        !.tree = call.tree]
    /\ UNCHANGED hook_unchanged

\* dep in hooks and dep not in visited, without the second half.
DescendsToAnyHook(hooks, dep, visited) ==
    dep \in DOMAIN hooks

\* step1: if dep in hooks and dep not in visited
DescendsStep1(hooks, dep, visited) ==
    dep \in DOMAIN hooks /\ dep \notin visited

\* step2: if used in lookup and used not in visited
DescendsStep2(lookup, used, visited) ==
    used \in DOMAIN lookup /\ used \notin visited

\* A turn of "for dep in deps" in the call running.
HookDepStep1 ==
    /\ hook.pc = "tree"
    /\ hook.tool = "step1"
    /\ hook.stack # <<>>
    /\ Top(hook.stack).d <= Len(hook.hooks[Top(hook.stack).name])
    /\ LET top == Top(hook.stack)
           dep == hook.hooks[top.name][top.d]
           call == CallStep1(Advanced(hook.stack), hook.tree, hook.hooks, dep,
                             top.indent + 1, top.visited)
       IN  hook' = IF DescendsStep1(hook.hooks, dep, top.visited)
                      THEN [hook EXCEPT !.stack = call.stack, !.tree = call.tree]
                      ELSE [hook EXCEPT !.stack = Advanced(hook.stack)]
    /\ UNCHANGED hook_unchanged

\* The loop of the call running is over: return result.
HookReturnStep1 ==
    /\ hook.pc = "tree"
    /\ hook.tool = "step1"
    /\ hook.stack # <<>>
    /\ Top(hook.stack).d > Len(hook.hooks[Top(hook.stack).name])
    /\ hook' = [hook EXCEPT !.stack = SubSeq(@, 1, Len(@) - 1)]
    /\ UNCHANGED hook_unchanged

\* The root's call has returned: lines.extend(tree_lines) and the hooks
\* named in the lines are marked rendered.
HookTreeStep1 ==
    /\ hook.pc = "tree"
    /\ hook.tool = "step1"
    /\ hook.stack = <<>>
    /\ hook' = [hook EXCEPT !.pc = "render", !.k = @ + 1,
                            !.lines = @ \o hook.tree,
                            !.rendered = @ \cup NamesIn(hook.tree),
                            !.tree = <<>>]
    /\ UNCHANGED hook_unchanged

\* step2 render_tree up to its loop: the lines of the hook.
LinesStep2(lookup, name, indent) ==
    << HookLine(indent, name, <<>>) >>
        \o (IF lookup[name] # <<>> THEN << UsesLine(indent, lookup[name]) >> ELSE <<>>)
        \o << BlankLine >>

\* A turn of "for root in sorted(roots, ...)": render_tree(root, 0,
\* {root.name}) is called.
HookEnterStep2 ==
    /\ hook.pc = "render"
    /\ hook.tool = "step2"
    /\ hook.k <= Len(hook.roots)
    /\ LET root == hook.roots[hook.k]
       IN  hook' = [hook EXCEPT !.pc = "tree",
                                !.stack = << Frame(root, 0, {root}) >>,
                                !.tree = LinesStep2(hook.hooks, root, 0)]
    /\ UNCHANGED hook_unchanged

\* visited is one set the calls of a tree share: visited.add(used) is seen
\* by every call on the stack.
AddVisited(stack, used) ==
    [k \in 1..Len(stack) |-> [stack[k] EXCEPT !.visited = @ \cup {used}]]

\* A turn of "for used in comp.uses_hooks" in the call running.
HookDepStep2 ==
    /\ hook.pc = "tree"
    /\ hook.tool = "step2"
    /\ hook.stack # <<>>
    /\ Top(hook.stack).d <= Len(hook.hooks[Top(hook.stack).name])
    /\ LET top == Top(hook.stack)
           used == hook.hooks[top.name][top.d]
       IN  hook' = IF DescendsStep2(hook.hooks, used, top.visited)
                      THEN [hook EXCEPT
                               !.stack = Append(AddVisited(Advanced(hook.stack), used),
                                                Frame(used, top.indent + 1,
                                                      top.visited \cup {used})),
                               !.tree = @ \o LinesStep2(hook.hooks, used, top.indent + 1)]
                      ELSE [hook EXCEPT !.stack = Advanced(hook.stack)]
    /\ UNCHANGED hook_unchanged

\* The loop of the call running is over: return result.
HookReturnStep2 ==
    /\ hook.pc = "tree"
    /\ hook.tool = "step2"
    /\ hook.stack # <<>>
    /\ Top(hook.stack).d > Len(hook.hooks[Top(hook.stack).name])
    /\ hook' = [hook EXCEPT !.stack = SubSeq(@, 1, Len(@) - 1)]
    /\ UNCHANGED hook_unchanged

\* The root's call has returned: lines.extend(tree_lines).
HookTreeStep2 ==
    /\ hook.pc = "tree"
    /\ hook.tool = "step2"
    /\ hook.stack = <<>>
    /\ hook' = [hook EXCEPT !.pc = "render", !.k = @ + 1,
                            !.lines = @ \o hook.tree, !.tree = <<>>]
    /\ UNCHANGED hook_unchanged

WalkNext ==
    \/ HookCollectStep1
    \/ HookEnterStep1
    \/ HookDepStep1
    \/ HookReturnStep1
    \/ HookTreeStep1
    \/ HookDoneStep1
    \/ HookCollectStep2
    \/ HookEnterStep2
    \/ HookDepStep2
    \/ HookReturnStep2
    \/ HookTreeStep2
    \/ HookDoneStep2

\* The generators are sequential functions: while a step can be taken, it
\* is taken.
SpecWalk == WalkInit /\ [][WalkNext]_vars /\ WF_vars(WalkNext)

\* The hooks of the calls on the stack, the root's first: the path from the
\* root to the hook being rendered.
PathNames == [k \in 1..Len(hook.stack) |-> hook.stack[k].name]

\* C30: hook composition tree rendering terminates for every hook
\* dependency graph, self-referential and cyclic ones included, and no hook
\* is rendered twice along a single root-to-leaf path: at every point the
\* hooks of the calls under way are all different, and the generator comes
\* to its end.
C30_TerminatesWithoutRepeat ==
    [](NoNameTwice(PathNames)) /\ <>(hook.pc = "done")

\* The hooks lie on a cycle: each of the two is among the hooks the other
\* uses, or the hook uses itself.
OnCycle(hooks, g, h) ==
    /\ g \in DOMAIN hooks
    /\ h \in DOMAIN hooks
    /\ h \in SeqToSet(hooks[g])
    /\ g \in SeqToSet(hooks[h])

\* C30's case, step2: the root's tree has been rendered down a path of
\* three hooks whose last two use each other.
C30_CycleBelowRoot ==
    /\ hook.tool = "step2"
    /\ hook.pc = "tree"
    /\ Len(hook.stack) = 3
    /\ OnCycle(hook.hooks, hook.stack[2].name, hook.stack[3].name)
    /\ Top(hook.stack).d > Len(hook.hooks[Top(hook.stack).name])

\* C30's case, step1: a hook that uses itself and a hook on a cycle with it
\* have been rendered and the generator has ended.
C30_Step1CycleRendered ==
    /\ hook.tool = "step1"
    /\ hook.pc = "done"
    /\ OnCycle(hook.hooks, "useA", "useA")
    /\ OnCycle(hook.hooks, "useA", "useB")
    /\ {"useA", "useB"} \subseteq hook.rendered

\* The lines of a root's tree, taken call by call, are the lines
\* render_hook_tree and render_tree return for the root.
C30_TreeAsReturned ==
    (hook.pc = "tree" /\ hook.stack = <<>>) =>
        hook.tree = IF hook.tool = "step1"
                        THEN render_hook_tree(hook.hooks, hook.roots[hook.k], 0, {})
                        ELSE render_tree(hook.hooks, hook.roots[hook.k], 0,
                                         {hook.roots[hook.k]}).lines


====
